---- MODULE Spec2Model ----
(***************************************************************************)
(* A model of the IFC viewer's model-lifecycle manager (IFCManager) and of *)
(* its rule-based property validator (PropertyValidator).                  *)
(*                                                                         *)
(* Coordinates are one axis of the three (bounding boxes, centres and      *)
(* translations are computed per axis, independently), stored in half      *)
(* units so that the centre (min + max) / 2 of whole-number parser         *)
(* coordinates is exact.                                                   *)
(***************************************************************************)
EXTENDS Integers, Sequences, FiniteSets, TLC

\* ------------------------------------------------------------------ bounds

\* Number of loadIFC calls in one behaviour.
MaxLoads == 2

\* The elements a highlight is asked for are numbered 1..MaxExpressID.
MaxExpressID == 2

\* Number of meshes in the model a validation run starts from.
MaxMeshes == 2

\* Number of meshes in the models of the long validation runs (progress is
\* reported after every tenth element).
MaxElements == 21

\* Number of parser requests that fail in one long validation run.
MaxFailedFetches == 2

\* Number of validateModel calls made one after the other.
MaxRuns == 2

\* The getElementProperties calls pending at a time.
MaxFetches == 2

\* ------------------------------------------------------- program constants

\* currentModel = null
NoModel == 0

\* (mesh as any).expressID === undefined
NoExpressID == 0

\* ---------------------------------------------------------------- variables

VARIABLES
    loaderReady,    \* the promise setupLoader returned: pending, resolved, rejected
    loads,          \* the loadIFC calls made so far, in call order
    models,         \* model object (the index of its load) -> the THREE object graph
    sceneModels,    \* the model objects attached to the scene
    currentModel,   \* IFCManager.currentModel
    live,           \* GPU resources created and not disposed: <<model, kind, mesh>>
    currentSubset,  \* IFCManager.currentSubset: <<>> (null) or <<subset>>
    parserSubsets,  \* the highlight subsets the parser holds
    progress,       \* the last progress notification delivered to onProgress
    subsetCalls,    \* history: the last highlight operation and its parser calls
    valPc,          \* validateModel: idle, awaitProps, awaitPsets, returned
    valRules,       \* its rules argument
    valModel,       \* its local "model": what getCurrentModel returned
    valMeshes,      \* the meshes it collected from the model
    valIdx,         \* the index in valMeshes of the mesh being validated
    valApplicable,  \* validateElement's applicableRules (indices in valRules)
    valResults,     \* its results list
    valProcessed,   \* its processed counter
    valProgress,    \* the percentages it passed to onProgress
    valOutcome,     \* how the call ended: none, returned, or the error thrown
    valLog,         \* history: what validateElement did for each mesh
    parserCalls,    \* history: the property requests made to the parser
    valRuns,        \* history: the validateModel calls that have returned to the caller
    gep,            \* the getElementProperties call: its position, locals and result
    overlayHidden,  \* loadingOverlay.classList contains 'hidden'
    timers,         \* the setTimeout callbacks pending, in the order they were set
    uiValidate,     \* the onValidate handler: idle, delay, awaitResults
    uiLoads,        \* the loadIFC calls whose change handler awaits loadFile
    propPanelHidden,\* the properties panel's classList contains 'hidden'
    propPanel,      \* what the properties panel shows
    fetches,        \* the selection handlers awaiting getElementProperties
    selectedObject  \* SceneManager.selectedObject: <<>> (null) or << <<model, mesh>> >>

lifeVars == <<loaderReady, loads, models, sceneModels, currentModel, live,
              currentSubset, parserSubsets, progress, subsetCalls>>

valVars == <<valPc, valRules, valModel, valMeshes, valIdx, valApplicable, valResults,
             valProcessed, valProgress, valOutcome, valLog, parserCalls, valRuns>>

extractVars == <<gep>>

uiVars == <<overlayHidden, timers, uiValidate, uiLoads, propPanelHidden, propPanel,
            fetches, selectedObject>>

vars == <<lifeVars, valVars, extractVars, uiVars>>

\* ------------------------------------------------------------ parser output

SetMin(S) == CHOOSE x \in S : \A y \in S : x <= y
SetMax(S) == CHOOSE x \in S : \A y \in S : x >= y

\* A mesh of a parsed model: its position relative to the container, the
\* bounding interval of its vertex data (local coordinates), its expressID.
ParsedMesh(p, lo, hi) ==
    [position |-> p, lo |-> lo, hi |-> hi, expressID |-> NoExpressID]

\* The object graphs loader.load may hand to onLoad: a container at some
\* position with zero or more meshes under it.
MeshLists ==
    { <<>>,
      << ParsedMesh(0, 2, 6) >>,
      << ParsedMesh(0, 0, 4), ParsedMesh(6, -2, 2) >> }

ContainerPositions == {0, 4}

ModelCatalog ==
    { [position |-> r, meshes |-> ms] : r \in ContainerPositions, ms \in MeshLists }

\* The model object as onLoad receives it; the parser numbers its models from 0.
Parsed(shape, modelID) ==
    [ position   |-> shape.position,
      meshes     |-> [ i \in DOMAIN shape.meshes |->
                            [ position  |-> shape.meshes[i].position,
                              lo        |-> shape.meshes[i].lo,
                              hi        |-> shape.meshes[i].hi,
                              expressID |-> shape.meshes[i].expressID,
                              modelID   |-> modelID ] ],
      modelID    |-> modelID,
      offset     |-> <<>>,     \* (model as any).offset, unset
      translated |-> 0,        \* total translation applied to the vertex data
      parsedAt   |-> shape.position,   \* history: the position it was parsed at
      centerCalls |-> 0 ]      \* history: the centerModel calls made on it

\* ------------------------------------------------------------- centerModel

\* mesh.geometry.boundingBox.clone().applyMatrix4(mesh.matrixWorld)
MeshWorldLo(m, i) == m.meshes[i].lo + m.position + m.meshes[i].position
MeshWorldHi(m, i) == m.meshes[i].hi + m.position + m.meshes[i].position

\* bbox: the union of the meshes' world boxes
BBoxMin(m) == SetMin({ MeshWorldLo(m, i) : i \in DOMAIN m.meshes })
BBoxMax(m) == SetMax({ MeshWorldHi(m, i) : i \in DOMAIN m.meshes })

\* bbox.getCenter(center)
BBoxCenter(m) == (BBoxMin(m) + BBoxMax(m)) \div 2

\* Mutant of CenterModel: the early return resets the container and stores a
\* zero offset.
CenterModelZeroOffset(m) ==
    IF Len(m.meshes) = 0
    THEN [ m EXCEPT !.centerCalls = @ + 1, !.position = 0, !.offset = << 0 >> ]
    ELSE LET center == BBoxCenter(m)
         IN  [ m EXCEPT
                 !.meshes = [ i \in DOMAIN m.meshes |->
                                [ m.meshes[i] EXCEPT !.lo = @ - center,
                                                     !.hi = @ - center ] ],
                 !.translated = @ - center,
                 !.position = 0,
                 !.offset = << center >>,
                 !.centerCalls = @ + 1 ]

CenterModel(m) ==
    IF Len(m.meshes) = 0
    THEN [ m EXCEPT !.centerCalls = @ + 1 ]    \* "No meshes found in model to center"
    ELSE LET center == BBoxCenter(m)
         IN  [ m EXCEPT
                 !.meshes = [ i \in DOMAIN m.meshes |->
                                [ m.meshes[i] EXCEPT !.lo = @ - center,
                                                     !.hi = @ - center ] ],
                 !.translated = @ - center,
                 !.position = 0,
                 !.offset = << center >>,
                 !.centerCalls = @ + 1 ]

\* Mutant of CenterOnLoad: the model is centred a second time.
CenterOnLoadTwice(m) == CenterModel(CenterModel(m))

\* Mutant of CenterOnLoad: the model is made current and "Complete!" is
\* notified with the centring still to come.
NotCentredOnLoad(m) == m

\* this.centerModel(ifcModel), the one call of centerModel: in loadIFC, on
\* the object onLoad has just received
CenterOnLoad(m) == CenterModel(m)

\* ------------------------------------------------- resources of a model

\* The geometries and materials the parsed meshes come with.
ParsedResources(id, m) ==
    { <<id, kind, i>> : kind \in {"geometry", "material"}, i \in DOMAIN m.meshes }

\* setupEdges: one EdgesGeometry per mesh, held by a LineSegments child.
SetupEdges(id, m) == { <<id, "edges", i>> : i \in DOMAIN m.meshes }

\* disposeCurrentModel's traverse: geometry and material of every child that
\* is a THREE.Mesh; a LineSegments is not one.
DisposedByTraverse(id, m) ==
    { <<id, kind, i>> : kind \in {"geometry", "material"}, i \in DOMAIN m.meshes }

\* ------------------------------------------------------------ the manager

ExpressIDs == 1..MaxExpressID

Finished(l) == loads[l].pc \in {"returned", "rejected"}

Notify(percentage, status) == [percentage |-> percentage, status |-> status]

\* The constructor: nothing loaded, the engine setup (setupLoader) started.
InitManager ==
    /\ loaderReady = "pending"
    /\ loads = <<>>
    /\ models = <<>>
    /\ sceneModels = {}
    /\ currentModel = NoModel
    /\ live = {}
    /\ currentSubset = <<>>
    /\ parserSubsets = {}
    /\ progress = Notify(0, "none")
    /\ subsetCalls = [op |-> "none", active |-> FALSE, calls |-> <<>>]

\* disposeCurrentModel, as the values it leaves (currentModel becomes null).
SceneAfterDispose ==
    IF currentModel # NoModel THEN sceneModels \ {currentModel} ELSE sceneModels

LiveAfterDispose ==
    IF currentModel # NoModel
    THEN live \ DisposedByTraverse(currentModel, models[currentModel])
    ELSE live

DisposeCurrentModel ==
    /\ sceneModels' = SceneAfterDispose
    /\ live' = LiveAfterDispose
    /\ currentModel' = NoModel

\* A loadIFC call: its position, and what it remembers (history only): the
\* state of things when it was made, whether it has called loader.load, and
\* the last notification its onProgress callback received (<<>>: none).
NewLoad(pc) ==
    [ pc           |-> pc,
      sequential   |-> \A k \in DOMAIN loads : Finished(k),
      hadHighlight |-> currentSubset # <<>>,
      replaced     |-> currentModel,
      ready        |-> loaderReady,
      parserLoad   |-> FALSE,
      notified     |-> <<>> ]

\* Mutant of AfterLoaderReady: the call goes on without awaiting the setup.
NoAwaitLoaderReady(ready) == "awaitParser"

\* await this.loaderReady: where the call is once the await has been reached
AfterLoaderReady(ready) ==
    CASE ready = "pending"  -> "awaitReady"
      [] ready = "rejected" -> "rejected"
      [] ready = "resolved" -> "awaitParser"

\* The call after the first part of the try block: the progress notification
\* and loader.load.
Started(load) ==
    [ load EXCEPT !.pc = "awaitParser",
                  !.parserLoad = TRUE,
                  !.notified = << Notify(0, "Starting download...") >> ]

\* loadIFC up to its first suspension. With the engine ready the code after
\* "await this.loaderReady" runs in the same turn of the event loop: dispose,
\* the first progress notification, loader.load. With a failed engine setup the
\* await throws, outside the try block.
LoadIFCStep ==
    /\ Len(loads) < MaxLoads
    /\ LET pc == AfterLoaderReady(loaderReady)
       IN  IF pc = "awaitParser"
           THEN /\ loads' = Append(loads, Started(NewLoad(pc)))
                /\ DisposeCurrentModel
                /\ progress' = Notify(0, "Starting download...")
           ELSE /\ loads' = Append(loads, NewLoad(pc))
                /\ UNCHANGED <<sceneModels, live, currentModel, progress>>
    /\ UNCHANGED <<loaderReady, models, currentSubset, parserSubsets, subsetCalls>>
    /\ UNCHANGED <<valVars, extractVars>>

\* loadIFC called with the page left as it is.
LoadIFC == LoadIFCStep /\ UNCHANGED uiVars

\* setupLoader settles; every loadIFC call waiting on loaderReady resumes, in
\* call order, within the same turn.
SetupLoaderDone(ok) ==
    /\ loaderReady = "pending"
    /\ loaderReady' = IF ok THEN "resolved" ELSE "rejected"
    /\ loads' = [ k \in DOMAIN loads |->
                    IF loads[k].pc # "awaitReady" THEN loads[k]
                    ELSE IF ok THEN Started(loads[k])
                    ELSE [ loads[k] EXCEPT !.pc = "rejected" ] ]
    /\ IF ok /\ \E k \in DOMAIN loads : loads[k].pc = "awaitReady"
       THEN DisposeCurrentModel /\ progress' = Notify(0, "Starting download...")
       ELSE UNCHANGED <<sceneModels, live, currentModel, progress>>
    /\ UNCHANGED <<models, currentSubset, parserSubsets, subsetCalls>>
    /\ UNCHANGED <<valVars, extractVars, uiVars>>

\* loader.load calls onLoad: the rest of loadIFC runs without suspension.
ParserLoaded(l, shape) ==
    /\ l \in DOMAIN loads
    /\ loads[l].pc = "awaitParser"
    /\ LET m == CenterOnLoad(Parsed(shape, Cardinality(DOMAIN models)))
       IN  /\ models' = (l :> m) @@ models
           /\ live' = live \cup ParsedResources(l, m) \cup SetupEdges(l, m)
    /\ sceneModels' = sceneModels \cup {l}
    /\ currentModel' = l
    /\ progress' = Notify(100, "Complete!")
    /\ loads' = [loads EXCEPT ![l].pc = "returned",
                              ![l].notified = << Notify(100, "Complete!") >>]
    /\ UNCHANGED <<loaderReady, currentSubset, parserSubsets, subsetCalls>>
    /\ UNCHANGED <<valVars, extractVars, uiVars>>

\* loader.load calls onLoad and setupEdges throws at the first mesh (the
\* EdgesGeometry cannot be built): the model has been added to the scene, made
\* current and centred, "Complete!" was notified; the catch block notifies
\* the error and rethrows.
SetupEdgesFailed(l, shape) ==
    /\ l \in DOMAIN loads
    /\ loads[l].pc = "awaitParser"
    /\ Len(shape.meshes) > 0
    /\ LET m == CenterOnLoad(Parsed(shape, Cardinality(DOMAIN models)))
       IN  /\ models' = (l :> m) @@ models
           /\ live' = live \cup ParsedResources(l, m)
    /\ sceneModels' = sceneModels \cup {l}
    /\ currentModel' = l
    /\ progress' = Notify(0, "Error loading model")
    /\ loads' = [loads EXCEPT ![l].pc = "rejected",
                              ![l].notified = << Notify(0, "Error loading model") >>]
    /\ UNCHANGED <<loaderReady, currentSubset, parserSubsets, subsetCalls>>
    /\ UNCHANGED <<valVars, extractVars, uiVars>>

\* loader.load calls onError: the catch block notifies and rethrows.
ParserFailed(l) ==
    /\ l \in DOMAIN loads
    /\ loads[l].pc = "awaitParser"
    /\ progress' = Notify(0, "Error loading model")
    /\ loads' = [loads EXCEPT ![l].pc = "rejected",
                              ![l].notified = << Notify(0, "Error loading model") >>]
    /\ UNCHANGED <<loaderReady, models, sceneModels, currentModel, live,
                   currentSubset, parserSubsets, subsetCalls>>
    /\ UNCHANGED <<valVars, extractVars, uiVars>>

\* ------------------------------------------------------------- highlights

\* (this.currentSubset as any).modelID || 0
ModelIDOrZero(subset) == IF subset.modelID = 0 THEN 0 ELSE subset.modelID

\* ifcManager.removeSubset(modelID, material)
RemoveSubset(subsets, modelID) == { s \in subsets : s.modelID # modelID }

\* ifcManager.createSubset({modelID, ids: [expressID], material, removePrevious}):
\* a sub-geometry built from the parser's original coordinates, which takes
\* the place of a subset the parser still holds for this model and material.
CreateSubset(subsets, modelID, expressID) ==
    [modelID |-> modelID, expressID |-> expressID, translated |-> 0]

\* subset.geometry.translate(-offset.x, -offset.y, -offset.z) when the live
\* model carries an offset.
TranslateSubset(subset, model) ==
    IF model.offset # <<>>
    THEN [subset EXCEPT !.translated = @ - model.offset[1]]
    ELSE subset

ParsedModelIDs == { models[k].modelID : k \in DOMAIN models }

\* A call of a parser subset function and how it ended. A call that throws
\* leaves the parser's subsets as they were.
SubsetCall(fn, ok) == [fn |-> fn, ok |-> ok]

\* The highlight state: currentSubset, the parser's subsets, and the parser
\* calls the running operation has made.
Highlight(subset, subsets, calls) ==
    [currentSubset |-> subset, parserSubsets |-> subsets, calls |-> calls]

\* Mutant of RemoveHighlightOf: removeSubset is called whether or not a
\* highlight is active.
RemoveHighlightUnguarded(h, ok) ==
    LET modelID == IF h.currentSubset = <<>> THEN 0
                   ELSE ModelIDOrZero(h.currentSubset[1])
    IN  IF ok
        THEN Highlight(<<>>, RemoveSubset(h.parserSubsets, modelID),
                       Append(h.calls, SubsetCall("removeSubset", TRUE)))
        ELSE Highlight(h.currentSubset, h.parserSubsets,
                       Append(h.calls, SubsetCall("removeSubset", FALSE)))

\* removeHighlight: with a current subset, removeSubset is called and the
\* subset forgotten; when removeSubset throws, the catch block logs and
\* currentSubset stays.
RemoveHighlightOf(h, ok) ==
    IF h.currentSubset = <<>> THEN h
    ELSE LET modelID == ModelIDOrZero(h.currentSubset[1])
         IN  IF ok
             THEN Highlight(<<>>, RemoveSubset(h.parserSubsets, modelID),
                            Append(h.calls, SubsetCall("removeSubset", TRUE)))
             ELSE Highlight(h.currentSubset, h.parserSubsets,
                            Append(h.calls, SubsetCall("removeSubset", FALSE)))

\* highlightElement: removeHighlight; nothing more without a live model
\* (model = <<>>); createSubset, the translation by the live model's offset,
\* currentSubset = subset; when createSubset throws, the catch block logs.
HighlightElementOf(h, model, modelID, expressID, removeOk, createOk) ==
    LET h1 == RemoveHighlightOf(h, removeOk)
    IN  IF model = <<>> THEN h1
        ELSE IF createOk
        THEN LET subset == TranslateSubset(
                               CreateSubset(h1.parserSubsets, modelID, expressID),
                               model[1])
             IN  Highlight(<< subset >>,
                           RemoveSubset(h1.parserSubsets, modelID) \cup {subset},
                           Append(h1.calls, SubsetCall("createSubset", TRUE)))
        ELSE [ h1 EXCEPT !.calls = Append(@, SubsetCall("createSubset", FALSE)) ]

\* What is recorded of the last highlight operation (history): its name,
\* whether a highlight was active when it was called, its parser calls.
LastOperation(op, h) ==
    [op |-> op, active |-> currentSubset # <<>>, calls |-> h.calls]

LiveModel == IF currentModel = NoModel THEN <<>> ELSE << models[currentModel] >>

HighlightElement(modelID, expressID, removeOk, createOk) ==
    /\ modelID \in ParsedModelIDs \cup {0}
    /\ LET h == HighlightElementOf(Highlight(currentSubset, parserSubsets, <<>>),
                                   LiveModel, modelID, expressID, removeOk, createOk)
       IN  /\ currentSubset' = h.currentSubset
           /\ parserSubsets' = h.parserSubsets
           /\ subsetCalls' = LastOperation("highlightElement", h)
    /\ UNCHANGED <<loaderReady, loads, models, sceneModels, currentModel, live,
                   progress>>
    /\ UNCHANGED <<valVars, extractVars, uiVars>>

RemoveHighlight(ok) ==
    /\ LET h == RemoveHighlightOf(Highlight(currentSubset, parserSubsets, <<>>), ok)
       IN  /\ currentSubset' = h.currentSubset
           /\ parserSubsets' = h.parserSubsets
           /\ subsetCalls' = LastOperation("removeHighlight", h)
    /\ UNCHANGED <<loaderReady, loads, models, sceneModels, currentModel, live,
                   progress>>
    /\ UNCHANGED <<valVars, extractVars, uiVars>>

\* ------------------------------------------------- strings and IFC data

LowerChars == <<"a", "b", "c", "d", "e", "f", "g", "h", "i", "j", "k", "l", "m", "n", "o", "p", "q", "r", "s", "t", "u", "v", "w", "x", "y", "z">>
UpperChars == <<"A", "B", "C", "D", "E", "F", "G", "H", "I", "J", "K", "L", "M", "N", "O", "P", "Q", "R", "S", "T", "U", "V", "W", "X", "Y", "Z">>

\* String.prototype.toUpperCase, on strings as sequences of characters
UpperChar(c) ==
    IF \E i \in DOMAIN LowerChars : LowerChars[i] = c
    THEN UpperChars[CHOOSE i \in DOMAIN LowerChars : LowerChars[i] = c]
    ELSE c

ToUpperCase(s) == [ i \in DOMAIN s |-> UpperChar(s[i]) ]

\* String.prototype.includes
Includes(s, t) ==
    \E i \in 0..(Len(s) - Len(t)) : SubSeq(s, i + 1, i + Len(t)) = t

IFCWALL == <<"I", "F", "C", "W", "A", "L", "L">>
IFCWALLSTANDARDCASE == <<"I", "F", "C", "W", "A", "L", "L", "S", "T", "A", "N", "D", "A", "R", "D", "C", "A", "S", "E">>
IfcWallMixed == <<"I", "f", "c", "W", "a", "l", "l">>
IFCSLAB == <<"I", "F", "C", "S", "L", "A", "B">>
WallMixed == <<"W", "a", "l", "l">>
WALL == <<"W", "A", "L", "L">>

\* A property set record as getPropertySets returns it: Name is <<>> when the
\* record has no Name, HasProperties is <<>> when the record has no such
\* field and << names >> when it has the list (the names of its properties).
Pset(name, hasProperties) == [Name |-> name, HasProperties |-> hasProperties]

\* An element of the IFC file: what getItemProperties returns (type, and the
\* name of the record's constructor) and what getPropertySets returns.
Element(type, ctor, psets) == [type |-> type, ctor |-> ctor, psets |-> psets]

\* The file the parser has decoded; an element's expressID is its index.
IfcFile ==
    << Element(IFCWALL, <<>>, <<>>),
       Element(IFCWALLSTANDARDCASE, <<>>,
               << Pset(<<"Pset_WallCommon">>, << <<"LoadBearing", "IsExternal">> >>) >>),
       Element(IFCWALL, <<>>,
               << Pset(<<"Pset_WallCommon">>, <<>>) >>),
       Element(IFCWALL, <<>>,
               << Pset(<<"Pset_WallCommon">>, << <<>> >>) >>),
       Element(IFCSLAB, <<>>,
               << Pset(<<"Pset_SlabCommon">>, << <<"LoadBearing">> >>) >>),
       Element(IfcWallMixed, <<>>,
               << Pset(<<>>, << <<"IsExternal">> >>),
                  Pset(<<"Pset_WallCommon">>, << <<"LoadBearing">> >>) >>),
       Element(<<>>, IfcWallMixed,
               << Pset(<<"PSET_WALLCOMMON">>, << <<"LoadBearing", "IsExternal">> >>) >>),
       Element(IFCWALL, <<>>,
               << Pset(<<"Pset_WallCommon">>, << <<"loadbearing">> >>),
                  Pset(<<"Pset_WallCommon">>, << <<"LoadBearing", "IsExternal">> >>) >>) >>

\* A ValidationRule; requiredProperties as its entries (Object.entries).
Rule(ifcClass, requiredPsets, requiredProperties) ==
    [ ifcClass           |-> ifcClass,
      requiredPsets      |-> requiredPsets,
      requiredProperties |-> requiredProperties ]

WallRule ==
    Rule(IFCWALL, <<"Pset_WallCommon">>,
         << <<"Pset_WallCommon", <<"LoadBearing", "IsExternal">> >> >>)

SlabRule ==
    Rule(IFCSLAB, <<"Pset_SlabCommon">>,
         << <<"Pset_SlabCommon", <<"LoadBearing">> >> >>)

WallPsetRule == Rule(WallMixed, <<"Pset_WallCommon">>, <<>>)

WallPropsRule ==
    Rule(IFCWALL, <<>>,
         << <<"Pset_WallCommon", <<"LoadBearing", "IsExternal">> >> >>)

WallNoPropsRule == Rule(WALL, <<>>, << <<"Pset_WallCommon", <<>> >> >>)

StandardCaseRule ==
    Rule(IFCWALLSTANDARDCASE, <<"Pset_WallCommon", "Pset_WallCommon">>,
         << <<"Pset_WallCommon", <<"IsExternal", "FireRating">> >> >>)

\* The rule lists validateModel is called with.
RuleLists ==
    { <<>>,
      << WallRule, SlabRule >>,
      << WallPsetRule >>,
      << WallPropsRule >>,
      << WallNoPropsRule >>,
      << SlabRule, WallPsetRule, WallRule >>,
      << StandardCaseRule, WallPropsRule >>,
      << WallRule, WallPropsRule >> }

\* Rules as JSON.parse hands them over when the text leaves a field out.
WallPsetsOnlyRule ==
    [ ifcClass |-> IFCWALL, requiredPsets |-> <<"Pset_WallCommon">> ]

WallPropertiesOnlyRule ==
    [ ifcClass           |-> IFCWALL,
      requiredProperties |-> << <<"Pset_WallCommon", <<"LoadBearing", "IsExternal">> >> >> ]

\* Rule lists in which a rule leaves out requiredProperties or requiredPsets.
PartialRuleLists ==
    { << WallPsetsOnlyRule >>,
      << WallPropertiesOnlyRule >>,
      << SlabRule, WallPsetsOnlyRule >>,
      << WallRule >> }

\* ------------------------------------------------------- validateElement

\* props.type || (props.constructor ? props.constructor.name : "")
IfcType(props) == IF props.type # <<>> THEN props.type ELSE props.ctor

\* Mutant of RuleApplies: the rule's class token is not uppercased.
RuleAppliesExactCase(rule, normalizedType) ==
    Includes(normalizedType, rule.ifcClass)

\* rules.filter(r => normalizedType.includes(r.ifcClass.toUpperCase())),
\* as the indices of the rules kept, in order
RuleApplies(rule, normalizedType) ==
    Includes(normalizedType, ToUpperCase(rule.ifcClass))

ApplicableRules(rules, normalizedType) ==
    SelectSeq([k \in DOMAIN rules |-> k],
              LAMBDA k : RuleApplies(rules[k], normalizedType))

\* ps.Name && ps.Name.value === name
PsetNamed(ps, name) == ps.Name # <<>> /\ ps.Name[1] = name

\* propertySets.find(...): the index of the first match, 0 for undefined
FindPset(propertySets, name) ==
    IF \E i \in DOMAIN propertySets : PsetNamed(propertySets[i], name)
    THEN SetMin({ i \in DOMAIN propertySets : PsetNamed(propertySets[i], name) })
    ELSE 0

\* Array.prototype.includes on a list of names
Contains(list, x) == \E i \in DOMAIN list : list[i] = x

\* The running state of validateElement's checks.
NoErrors == [missingPsets |-> <<>>, missingProperties |-> <<>>, hasError |-> FALSE]

\* Mutant of PushMissingPset: pushed without the includes test.
PushMissingPsetAlways(missingPsets, reqPset) == Append(missingPsets, reqPset)

\* if (!missingPsets.includes(reqPset)) missingPsets.push(reqPset)
PushMissingPset(missingPsets, reqPset) ==
    IF Contains(missingPsets, reqPset) THEN missingPsets
    ELSE Append(missingPsets, reqPset)

\* for (const reqPset of rule.requiredPsets) ...
RECURSIVE CheckPsets(_, _, _)
CheckPsets(st, propertySets, reqPsets) ==
    IF reqPsets = <<>> THEN st
    ELSE LET reqPset == Head(reqPsets)
             st1 == IF FindPset(propertySets, reqPset) = 0
                    THEN [ st EXCEPT
                             !.missingPsets = PushMissingPset(@, reqPset),
                             !.hasError = TRUE ]
                    ELSE st
         IN  CheckPsets(st1, propertySets, Tail(reqPsets))

\* missingProperties[psetName], created empty when it does not exist
Entry(missingProperties, psetName) ==
    IF psetName \in DOMAIN missingProperties
    THEN missingProperties[psetName] ELSE <<>>

SetEntry(missingProperties, psetName, list) ==
    (psetName :> list) @@ missingProperties

\* if (!missingProperties[psetName].includes(propName)) push(propName)
PushMissingProp(list, propName) ==
    IF Contains(list, propName) THEN list ELSE Append(list, propName)

\* for (const propName of reqProps) ... on a set that has HasProperties
RECURSIVE CheckProps(_, _, _, _)
CheckProps(st, psetName, hasProperties, reqProps) ==
    IF reqProps = <<>> THEN st
    ELSE LET propName == Head(reqProps)
             st1 == IF ~Contains(hasProperties, propName)
                    THEN [ st EXCEPT
                             !.missingProperties =
                                 SetEntry(@, psetName,
                                          PushMissingProp(Entry(@, psetName), propName)),
                             !.hasError = TRUE ]
                    ELSE st
         IN  CheckProps(st1, psetName, hasProperties, Tail(reqProps))

\* Mutant of AllPropsMissing: the error is flagged, the names are not listed.
AllPropsMissingUnlisted(st, psetName, reqProps) ==
    [ st EXCEPT
        !.missingProperties = SetEntry(@, psetName, Entry(@, psetName)),
        !.hasError = TRUE ]

\* the else branch ("Empty Pset?"): push(...reqProps), hasError = true
AllPropsMissing(st, psetName, reqProps) ==
    [ st EXCEPT
        !.missingProperties = SetEntry(@, psetName, Entry(@, psetName) \o reqProps),
        !.hasError = TRUE ]

\* for (const [psetName, reqProps] of Object.entries(rule.requiredProperties))
RECURSIVE CheckProperties(_, _, _)
CheckProperties(st, propertySets, entries) ==
    IF entries = <<>> THEN st
    ELSE LET psetName == Head(entries)[1]
             reqProps == Head(entries)[2]
             found == FindPset(propertySets, psetName)
             st1 == IF found = 0 THEN st        \* continue
                    ELSE IF propertySets[found].HasProperties # <<>>
                    THEN CheckProps(st, psetName,
                                    propertySets[found].HasProperties[1], reqProps)
                    ELSE AllPropsMissing(st, psetName, reqProps)
         IN  CheckProperties(st1, propertySets, Tail(entries))

\* for (const rule of applicableRules) ...
RECURSIVE CheckRules(_, _, _, _)
CheckRules(st, rules, applicable, propertySets) ==
    IF applicable = <<>> THEN st
    ELSE LET rule == rules[Head(applicable)]
             st1 == CheckPsets(st, propertySets, rule.requiredPsets)
             st2 == CheckProperties(st1, propertySets, rule.requiredProperties)
         IN  CheckRules(st2, rules, Tail(applicable), propertySets)

\* for (const reqPset of rule.requiredPsets) and
\* Object.entries(rule.requiredProperties) throw a TypeError on a rule that
\* has no such field; the catch block of validateElement returns null.
RuleThrows(rule) ==
    ~ ({"requiredPsets", "requiredProperties"} \subseteq DOMAIN rule)

RulesThrow(rules, applicable) ==
    \E k \in DOMAIN applicable : RuleThrows(rules[applicable[k]])

\* (mesh as any).modelID || 0
MeshModelID(mesh) == IF mesh.modelID = 0 THEN 0 ELSE mesh.modelID

\* The ValidationResult validateElement returns once it has the property sets.
ElementResult(mesh, normalizedType, rules, applicable, propertySets) ==
    LET st == CheckRules(NoErrors, rules, applicable, propertySets)
    IN  IF ~st.hasError
        THEN [ elementID |-> mesh.expressID, modelID |-> MeshModelID(mesh),
               ifcClass |-> normalizedType, missingPsets |-> <<>>,
               missingProperties |-> <<>>, passed |-> TRUE ]
        ELSE [ elementID |-> mesh.expressID, modelID |-> MeshModelID(mesh),
               ifcClass |-> normalizedType, missingPsets |-> st.missingPsets,
               missingProperties |-> st.missingProperties, passed |-> FALSE ]

\* --------------------------------------------------------- validateModel

InitValidator ==
    /\ valPc = "idle"
    /\ valRules = <<>>
    /\ valModel = NoModel
    /\ valMeshes = <<>>
    /\ valIdx = 0
    /\ valApplicable = <<>>
    /\ valResults = <<>>
    /\ valProcessed = 0
    /\ valProgress = <<>>
    /\ valOutcome = "none"
    /\ valLog = <<>>
    /\ parserCalls = <<>>
    /\ valRuns = <<>>

\* model.traverse(...): the meshes that carry an expressID, in traversal order
CollectMeshes(model) ==
    SelectSeq(model.meshes, LAMBDA mesh : mesh.expressID # NoExpressID)

\* Mutant of Percent: the percentage is truncated, not rounded.
PercentTruncated(processed, total) == (100 * processed) \div total

\* Math.round((processed / total) * 100)
Percent(processed, total) == (200 * processed + total) \div (2 * total)

ParserCall(fn, mesh) ==
    [fn |-> fn, modelID |-> MeshModelID(mesh), expressID |-> mesh.expressID]

\* What the parser holds for a mesh's (modelID, expressID).
ElementOf(mesh) == IfcFile[mesh.expressID]

\* Mutant of NewResults: the list of the previous call is kept.
KeptResults == valResults

\* const results: ValidationResult[] = []
NewResults == <<>>

\* Mutant of ValidateNoModel: the call with no model loaded throws.
ValidateNoModelThrows ==
    /\ valPc' = "returned"
    /\ valOutcome' = "NoModelLoaded"
    /\ valResults' = <<>>
    /\ UNCHANGED <<valMeshes, valIdx, valApplicable, valProcessed, valProgress,
                   valLog, parserCalls>>

\* The call with no model loaded: console.warn and return [].
ValidateNoModel ==
    /\ valPc' = "returned"
    /\ valOutcome' = "returned"
    /\ valResults' = <<>>
    /\ UNCHANGED <<valMeshes, valIdx, valApplicable, valProcessed, valProgress,
                   valLog, parserCalls>>

\* The end of one turn of the loop over the meshes: result is <<>> for null or
\* << the ValidationResult >>; then the next mesh's validateElement runs up to
\* its first await, or the loop ends and validateModel returns.
EndOfElement(entry, result) ==
    LET processed == valProcessed + 1
        total == Len(valMeshes)
        reported == IF processed % 10 = 0
                    THEN Append(valProgress, Percent(processed, total))
                    ELSE valProgress
    IN  /\ valLog' = Append(valLog, entry)
        /\ valResults' = IF result # <<>> /\ ~result[1].passed
                         THEN Append(valResults, result[1])
                         ELSE valResults
        /\ valProcessed' = processed
        /\ valApplicable' = <<>>
        /\ IF valIdx < total
           THEN /\ valIdx' = valIdx + 1
                /\ valPc' = "awaitProps"
                /\ valProgress' = reported
                /\ valOutcome' = valOutcome
           ELSE /\ valIdx' = valIdx
                /\ valPc' = "returned"
                /\ valProgress' = Append(reported, 100)
                /\ valOutcome' = "returned"

LogEntry(mesh, fetched, applicable, result) ==
    [mesh |-> mesh, fetched |-> fetched, applicable |-> applicable, result |-> result]

\* Mutant of ElementSkipped: the catch block rethrows and validateModel
\* rejects.
ElementRethrown(entry) ==
    /\ valLog' = Append(valLog, entry)
    /\ valPc' = "returned"
    /\ valOutcome' = "rejected"
    /\ UNCHANGED <<valIdx, valResults, valProcessed, valApplicable, valProgress>>

\* catch (e) { console.error(...); return null; }: the element yields nothing
\* and the loop goes on.
ElementSkipped(entry) == EndOfElement(entry, <<>>)

\* Mutant of FirstRequest: the class of every mesh is requested at once.
RequestsForAll(meshes) ==
    [ i \in DOMAIN meshes |-> ParserCall("getItemProperties", meshes[i]) ]

\* The requests made before validateModel first suspends: validateElement of
\* the first mesh, up to its await of getItemProperties.
FirstRequest(meshes) == << ParserCall("getItemProperties", meshes[1]) >>

\* Mutant of PropertySetsRequest: the sets are requested for every rule.
PropertySetsRequestPerRule(mesh, applicable) ==
    [ k \in DOMAIN applicable |-> ParserCall("getPropertySets", mesh) ]

\* await loader.ifcManager.getPropertySets(modelID, expressID, true), once the
\* applicable rules are known
PropertySetsRequest(mesh, applicable) == << ParserCall("getPropertySets", mesh) >>

\* validateModel(rules, onProgress) up to its first suspension.
ValidateModelStep(rules) ==
    /\ valPc = "idle"
    /\ valRules' = rules
    /\ valModel' = currentModel
    /\ IF currentModel = NoModel
       THEN ValidateNoModel
       ELSE LET meshes == CollectMeshes(models[currentModel])
            IN  /\ valMeshes' = meshes
                /\ valResults' = NewResults
                /\ valProcessed' = 0
                /\ UNCHANGED <<valApplicable, valLog>>
                /\ IF meshes = <<>>
                   THEN /\ valPc' = "returned"
                        /\ valOutcome' = "returned"
                        /\ valProgress' = Append(valProgress, 100)
                        /\ UNCHANGED <<valIdx, parserCalls>>
                   ELSE /\ valPc' = "awaitProps"
                        /\ valIdx' = 1
                        /\ parserCalls' = parserCalls \o FirstRequest(meshes)
                        /\ UNCHANGED <<valProgress, valOutcome>>
    /\ UNCHANGED valRuns
    /\ UNCHANGED <<lifeVars, extractVars>>

\* validateModel called with the page left as it is.
ValidateModel(rules) == ValidateModelStep(rules) /\ UNCHANGED uiVars

\* getItemProperties settles: on a rejection the catch block returns null; on
\* success the class is matched against the rules and, when a rule applies,
\* getPropertySets is requested.
ItemPropertiesDone(ok) ==
    /\ valPc = "awaitProps"
    /\ LET mesh == valMeshes[valIdx]
           normalizedType == ToUpperCase(IfcType(ElementOf(mesh)))
           applicable == ApplicableRules(valRules, normalizedType)
           next == IF valIdx < Len(valMeshes)
                   THEN Append(parserCalls,
                               ParserCall("getItemProperties", valMeshes[valIdx + 1]))
                   ELSE parserCalls
       IN  IF ~ok
           THEN /\ ElementSkipped(LogEntry(mesh, "propsFailed", <<>>, <<>>))
                /\ parserCalls' = next
           ELSE IF applicable = <<>>
           THEN /\ EndOfElement(LogEntry(mesh, "props", <<>>, <<>>), <<>>)
                /\ parserCalls' = next
           ELSE /\ valPc' = "awaitPsets"
                /\ valApplicable' = applicable
                /\ parserCalls' = parserCalls \o PropertySetsRequest(mesh, applicable)
                /\ UNCHANGED <<valIdx, valResults, valProcessed, valProgress,
                               valOutcome, valLog>>
    /\ UNCHANGED <<valRules, valModel, valMeshes, valRuns>>
    /\ UNCHANGED <<lifeVars, extractVars, uiVars>>

\* getPropertySets settles: on a rejection the catch block returns null; on
\* success the rules are checked and a failing result is kept; a rule that
\* makes the check throw ends in the catch block as well.
PropertySetsDone(ok) ==
    /\ valPc = "awaitPsets"
    /\ LET mesh == valMeshes[valIdx]
           normalizedType == ToUpperCase(IfcType(ElementOf(mesh)))
           result == ElementResult(mesh, normalizedType, valRules, valApplicable,
                                   ElementOf(mesh).psets)
       IN  IF ~ok
           THEN ElementSkipped(LogEntry(mesh, "psetsFailed", valApplicable, <<>>))
           ELSE IF RulesThrow(valRules, valApplicable)
           THEN ElementSkipped(LogEntry(mesh, "checkThrew", valApplicable, <<>>))
           ELSE EndOfElement(LogEntry(mesh, "psets", valApplicable, <<result>>),
                             <<result>>)
    /\ parserCalls' =
           IF valIdx < Len(valMeshes)
           THEN Append(parserCalls,
                       ParserCall("getItemProperties", valMeshes[valIdx + 1]))
           ELSE parserCalls
    /\ UNCHANGED <<valRules, valModel, valMeshes, valRuns>>
    /\ UNCHANGED <<lifeVars, extractVars, uiVars>>

\* What the caller keeps of a validateModel call that has returned.
FinishedRun ==
    [ rules   |-> valRules,
      model   |-> valModel,
      answers |-> [ k \in DOMAIN valLog |-> valLog[k].fetched ],
      results |-> valResults,
      outcome |-> valOutcome ]

\* The caller's await resumes with the results; validateModel can be called
\* again.
ValidationReturnedStep ==
    /\ valPc = "returned"
    /\ Len(valRuns) < MaxRuns - 1
    /\ valRuns' = Append(valRuns, FinishedRun)
    /\ valPc' = "idle"
    /\ valOutcome' = "none"
    /\ valLog' = <<>>
    /\ valProgress' = <<>>
    /\ parserCalls' = <<>>
    /\ UNCHANGED <<valRules, valModel, valMeshes, valIdx, valApplicable, valResults,
                   valProcessed>>
    /\ UNCHANGED <<lifeVars, extractVars>>

\* The await of a caller that leaves the page as it is.
ValidationReturned == ValidationReturnedStep /\ UNCHANGED uiVars

\* ---------------------------------------------------- getElementProperties

\* properties.HasAssociations of the elements of the file: <<>> when the
\* record has no such field, << the referenced ids >> when it has.
HasAssociations(expressID) ==
    CASE expressID = 1 -> << <<9, 10, 11, 12>> >>
      [] expressID = 2 -> << <<9, 11>> >>
      [] expressID = 7 -> << <<10>> >>
      [] OTHER -> <<>>

\* The records the associations refer to: the type of each, and whether it
\* carries a Name.
AssociatedItem(id) ==
    CASE id = 9  -> [expressID |-> id, type |-> "IFCMATERIAL", Name |-> TRUE]
      [] id = 10 -> [expressID |-> id, type |-> "IFCPROPERTYSET", Name |-> TRUE]
      [] id = 11 -> [expressID |-> id, type |-> "IFCELEMENTQUANTITY", Name |-> FALSE]
      [] OTHER   -> [expressID |-> id, type |-> "IFCCLASSIFICATIONREFERENCE", Name |-> FALSE]

\* getItemProperties(modelID, expressID) for an element of the file
ItemProperties(expressID) ==
    [ expressID       |-> expressID,
      type            |-> IfcFile[expressID].type,
      HasAssociations |-> HasAssociations(expressID) ]

\* The meshes getElementProperties is called with (0: no expressID).
ExtractedElements == {0, 1, 2, 5, 7}

GepIdle ==
    [ pc |-> "idle", expressID |-> NoExpressID, modelID |-> 0,
      properties |-> <<>>, propertySets |-> <<>>, materials |-> <<>>,
      typeProperties |-> <<>>, idx |-> 0, assocProps |-> <<>>,
      outcome |-> "none", bundle |-> <<>>, calls |-> <<>>, failed |-> <<>>,
      failedAt |-> <<>> ]

InitExtractor == gep = GepIdle

\* A request to the parser, and the position the call waits at (history: the
\* requests made, each with the step that made it).
GepAwait(g, pc, fn, id) ==
    [ g EXCEPT !.pc = pc, !.calls = Append(@, [fn |-> fn, id |-> id, step |-> pc]) ]

\* A request was rejected (history: the step, and the association the loop
\* was at).
GepFailed(g) ==
    [ g EXCEPT !.failed = Append(@, g.pc), !.failedAt = Append(@, g.idx) ]

\* if (expressID === undefined) { console.warn(...); return null; }
GepNoExpressID(g) == [ g EXCEPT !.pc = "returned", !.outcome = "null" ]

\* Mutant of GepCatch: the outer catch rethrows.
GepCatchRethrows(g) == [ g EXCEPT !.pc = "returned", !.outcome = "rejected" ]

\* catch (error) { console.error(...); return null; }
GepCatch(g) == [ g EXCEPT !.pc = "returned", !.outcome = "null" ]

\* return { properties, propertySets, materials, typeProperties, expressID, modelID }
GepReturn(g) ==
    [ g EXCEPT !.pc = "returned", !.outcome = "bundle",
               !.bundle = << [ properties     |-> g.properties[1],
                               propertySets   |-> g.propertySets,
                               materials      |-> g.materials,
                               typeProperties |-> g.typeProperties,
                               expressID      |-> g.expressID,
                               modelID        |-> g.modelID ] >> ]

\* properties.HasAssociations as a loop iterates it
AssociationsOf(g) ==
    IF g.properties[1].HasAssociations = <<>> THEN <<>>
    ELSE g.properties[1].HasAssociations[1]

\* Mutant of GepFallback: the associations are searched whether or not
\* property sets came back.
GepFallbackAlways(g) ==
    IF AssociationsOf(g) # <<>>
    THEN GepAwait([g EXCEPT !.idx = 1], "fallback", "getItemProperties",
                  AssociationsOf(g)[1])
    ELSE GepReturn(g)

\* 5. the fallback: when no property set came back and the element lists
\* associations, each association is resolved in turn.
GepFallback(g) ==
    IF Len(g.propertySets) = 0 /\ AssociationsOf(g) # <<>>
    THEN GepAwait([g EXCEPT !.idx = 1], "fallback", "getItemProperties",
                  AssociationsOf(g)[1])
    ELSE GepReturn(g)

\* the next turn of the fallback loop, or the return
GepFallbackNext(g) ==
    IF g.idx < Len(AssociationsOf(g))
    THEN GepAwait([g EXCEPT !.idx = g.idx + 1, !.assocProps = <<>>], "fallback",
                  "getItemProperties", AssociationsOf(g)[g.idx + 1])
    ELSE GepReturn([g EXCEPT !.assocProps = <<>>])

\* 4. the type: fetched when properties.type is set.
GepTypeProperties(g) ==
    IF g.properties[1].type # <<>>
    THEN GepAwait(g, "typeProperties", "getItemProperties", g.properties[1].type)
    ELSE GepFallback(g)

\* 3. the materials: each association is resolved in turn.
GepMaterials(g) ==
    IF AssociationsOf(g) # <<>>
    THEN GepAwait([g EXCEPT !.idx = 1], "materials", "getItemProperties",
                  AssociationsOf(g)[1])
    ELSE GepTypeProperties(g)

\* getElementProperties(mesh) up to its first suspension.
GepCall(expressID, modelID) ==
    LET g == [GepIdle EXCEPT !.expressID = expressID, !.modelID = modelID]
    IN  IF expressID = NoExpressID
        THEN GepNoExpressID(g)
        ELSE GepAwait(g, "properties", "getItemProperties", expressID)

\* 1. getItemProperties settles.
GepPropertiesFetched(g, ok) ==
    IF ok
    THEN GepAwait([g EXCEPT !.properties = << ItemProperties(g.expressID) >>],
                  "propertySets", "getPropertySets", g.expressID)
    ELSE GepCatch(GepFailed(g))

\* 2. getPropertySets settles.
GepPropertySetsFetched(g, ok) ==
    IF ok
    THEN GepMaterials([g EXCEPT !.propertySets = IfcFile[g.expressID].psets])
    ELSE GepCatch(GepFailed(g))

\* 3. an association is resolved: kept when it is a material or has a Name;
\* a failure ends the loop.
GepMaterialFetched(g, ok) ==
    IF ok
    THEN LET assocProps == AssociatedItem(AssociationsOf(g)[g.idx])
             g1 == IF assocProps.type = "IFCMATERIAL" \/ assocProps.Name
                   THEN [g EXCEPT !.materials = Append(@, assocProps)]
                   ELSE g
         IN  IF g.idx < Len(AssociationsOf(g))
             THEN GepAwait([g1 EXCEPT !.idx = g.idx + 1], "materials",
                           "getItemProperties", AssociationsOf(g)[g.idx + 1])
             ELSE GepTypeProperties(g1)
    ELSE GepTypeProperties(GepFailed(g))

\* 4. the type record is fetched; then its property sets are requested.
GepTypeFetched(g, ok) ==
    IF ok
    THEN GepAwait([g EXCEPT !.typeProperties =
                                << [type |-> g.properties[1].type, propertySets |-> <<>>] >>],
                  "typePropertySets", "getPropertySets", g.properties[1].type)
    ELSE GepFallback(GepFailed(g))

GepTypePropertySetsFetched(g, ok) ==
    IF ok
    THEN GepFallback([g EXCEPT !.typeProperties[1].propertySets = << "typePsets" >>])
    ELSE GepFallback(GepFailed(g))

\* 5. an association is resolved: a property set or a quantity set is
\* fetched in full, anything else is passed over.
GepAssociationFetched(g, ok) ==
    IF ok
    THEN LET assocProps == AssociatedItem(AssociationsOf(g)[g.idx])
         IN  IF assocProps.type \in {"IFCPROPERTYSET", "IFCELEMENTQUANTITY"}
             THEN GepAwait([g EXCEPT !.assocProps = << assocProps >>], "fullSet",
                           "getItemProperties", assocProps.expressID)
             ELSE GepFallbackNext(g)
    ELSE GepFallbackNext(GepFailed(g))

GepFullSetFetched(g, ok) ==
    IF ok
    THEN GepFallbackNext([g EXCEPT !.propertySets =
                                       Append(@, Pset(<<g.assocProps[1].type>>, <<>>))])
    ELSE GepFallbackNext(GepFailed(g))

GetElementProperties(expressID) ==
    /\ gep.pc = "idle"
    /\ gep' = GepCall(expressID, 0)
    /\ UNCHANGED <<lifeVars, valVars, uiVars>>

PropertiesFetched(ok) ==
    /\ gep.pc = "properties"
    /\ gep' = GepPropertiesFetched(gep, ok)
    /\ UNCHANGED <<lifeVars, valVars, uiVars>>

PropertySetsFetched(ok) ==
    /\ gep.pc = "propertySets"
    /\ gep' = GepPropertySetsFetched(gep, ok)
    /\ UNCHANGED <<lifeVars, valVars, uiVars>>

MaterialFetched(ok) ==
    /\ gep.pc = "materials"
    /\ gep' = GepMaterialFetched(gep, ok)
    /\ UNCHANGED <<lifeVars, valVars, uiVars>>

TypeFetched(ok) ==
    /\ gep.pc = "typeProperties"
    /\ gep' = GepTypeFetched(gep, ok)
    /\ UNCHANGED <<lifeVars, valVars, uiVars>>

TypePropertySetsFetched(ok) ==
    /\ gep.pc = "typePropertySets"
    /\ gep' = GepTypePropertySetsFetched(gep, ok)
    /\ UNCHANGED <<lifeVars, valVars, uiVars>>

AssociationFetched(ok) ==
    /\ gep.pc = "fallback"
    /\ gep' = GepAssociationFetched(gep, ok)
    /\ UNCHANGED <<lifeVars, valVars, uiVars>>

FullSetFetched(ok) ==
    /\ gep.pc = "fullSet"
    /\ gep' = GepFullSetFetched(gep, ok)
    /\ UNCHANGED <<lifeVars, valVars, uiVars>>

\* ------------------------------------------------------------ the page

\* propertiesPanel.clear()
Placeholder == [kind |-> "placeholder", expressID |-> NoExpressID]

\* The page once DOMContentLoaded has run: no operation started, the loading
\* overlay and the validation panel hidden, the properties panel open with
\* its placeholder, nothing selected.
InitUI ==
    /\ overlayHidden = TRUE
    /\ timers = <<>>
    /\ uiValidate = [pc |-> "idle", rules |-> <<>>]
    /\ uiLoads = {}
    /\ propPanelHidden = FALSE
    /\ propPanel = Placeholder
    /\ fetches = <<>>
    /\ selectedObject = <<>>

\* hideLoading: the overlay is hidden by a timer, 500 ms from now.
HideLoading(pending) == Append(pending, "hide")

\* The pending timers without the i-th.
Without(pending, i) ==
    [ n \in 1..(Len(pending) - 1) |-> IF n < i THEN pending[n] ELSE pending[n + 1] ]

\* The change handler of the file input up to its await: showLoading, then
\* loadFile, which calls loadIFC. When loadIFC throws before it suspends
\* nothing else can run before the handler's finally block.
FileInputChange ==
    /\ LoadIFCStep
    /\ overlayHidden' = FALSE
    /\ IF AfterLoaderReady(loaderReady) = "rejected"
       THEN timers' = HideLoading(timers) /\ UNCHANGED uiLoads
       ELSE uiLoads' = uiLoads \cup {Len(loads) + 1} /\ UNCHANGED timers
    /\ UNCHANGED <<uiValidate, propPanelHidden, propPanel, fetches, selectedObject>>

\* loadFile has settled and the change handler resumes: the camera fit is
\* scheduled or the alert shown, and the finally block calls hideLoading.
FileHandlerResumes(l) ==
    /\ l \in uiLoads
    /\ Finished(l)
    /\ uiLoads' = uiLoads \ {l}
    /\ timers' = HideLoading(timers)
    /\ UNCHANGED <<overlayHidden, uiValidate, propPanelHidden, propPanel, fetches,
                   selectedObject>>
    /\ UNCHANGED <<lifeVars, valVars, extractVars>>

\* The onValidate handler up to its await of the 100 ms timer: without a
\* current model it alerts and returns; otherwise showLoading.
ValidateClicked(rules) ==
    /\ uiValidate.pc = "idle"
    /\ IF currentModel = NoModel
       THEN UNCHANGED <<overlayHidden, timers, uiValidate>>
       ELSE /\ overlayHidden' = FALSE
            /\ timers' = Append(timers, "validate")
            /\ uiValidate' = [pc |-> "delay", rules |-> rules]
    /\ UNCHANGED <<uiLoads, propPanelHidden, propPanel, fetches, selectedObject>>
    /\ UNCHANGED <<lifeVars, valVars, extractVars>>

\* The 100 ms timer fires (a 500 ms timer set before it may still be
\* pending): the handler calls validateModel.
ValidateDelayElapsed ==
    /\ uiValidate.pc = "delay"
    /\ \E i \in DOMAIN timers :
          /\ timers[i] = "validate"
          /\ timers' = Without(timers, i)
    /\ ValidateModelStep(uiValidate.rules)
    /\ uiValidate' = [uiValidate EXCEPT !.pc = "awaitResults"]
    /\ UNCHANGED <<overlayHidden, uiLoads, propPanelHidden, propPanel, fetches,
                   selectedObject>>

\* validateModel has returned and the handler resumes: showResults, then
\* the finally block calls hideLoading.
ValidateHandlerResumes ==
    /\ uiValidate.pc = "awaitResults"
    /\ ValidationReturnedStep
    /\ uiValidate' = [pc |-> "idle", rules |-> <<>>]
    /\ timers' = HideLoading(timers)
    /\ UNCHANGED <<overlayHidden, uiLoads, propPanelHidden, propPanel, fetches,
                   selectedObject>>

\* The oldest pending timer is one set by hideLoading, and fires.
HideTimerFires ==
    /\ timers # <<>>
    /\ Head(timers) = "hide"
    /\ overlayHidden' = TRUE
    /\ timers' = Tail(timers)
    /\ UNCHANGED <<uiValidate, uiLoads, propPanelHidden, propPanel, fetches,
                   selectedObject>>
    /\ UNCHANGED <<lifeVars, valVars, extractVars>>

\* --------------------------------------------------------------- selection

\* (pickedMesh.parent as any)?.modelID || 0
ParentModelID(model) == IF model.modelID = 0 THEN 0 ELSE model.modelID

\* SceneManager.pickObject on an intersected mesh: when the face hit carries
\* an expressID attribute, the id and the parent's modelID are stored on the
\* mesh (expressID = NoExpressID: the geometry has no such attribute).
PickedMesh(model, i, expressID) ==
    IF expressID # NoExpressID
    THEN [ model.meshes[i] EXCEPT !.expressID = expressID,
                                  !.modelID = ParentModelID(model) ]
    ELSE model.meshes[i]

\* deselectObject: the selection callback is called with null and clears the
\* highlight.
DeselectObjectOf(h, clearOk) == RemoveHighlightOf(h, clearOk)

\* selectObject, as far as the highlight goes: deselectObject, then the
\* selection callback with the mesh, which highlights the element when the
\* mesh carries an expressID.
SelectObjectOf(h, model, mesh, clearOk, removeOk, createOk) ==
    LET h1 == DeselectObjectOf(h, clearOk)
    IN  IF mesh.expressID # NoExpressID
        THEN HighlightElementOf(h1, model, IF mesh.modelID = 0 THEN 0 ELSE mesh.modelID,
                                mesh.expressID, removeOk, createOk)
        ELSE h1

\* What the selection callback leaves in the properties panel when its
\* await of getElementProperties resumes: null gives showError('No properties
\* available for this element'), a bundle gives displayProperties with the
\* bundle's Express ID in the first group, an exception gives
\* showError('Error loading properties').
PanelAfter(g) ==
    CASE g.outcome = "bundle" ->
            [kind |-> "properties", expressID |-> g.bundle[1].expressID]
      [] g.outcome = "null" -> [kind |-> "noProperties", expressID |-> NoExpressID]
      [] OTHER -> [kind |-> "errorLoading", expressID |-> NoExpressID]

\* propertiesPanel.showLoading()
LoadingProperties == [kind |-> "loading", expressID |-> NoExpressID]

\* The parser request a getElementProperties call waits for settles.
GepSettled(g, ok) ==
    CASE g.pc = "properties"       -> GepPropertiesFetched(g, ok)
      [] g.pc = "propertySets"     -> GepPropertySetsFetched(g, ok)
      [] g.pc = "materials"        -> GepMaterialFetched(g, ok)
      [] g.pc = "typeProperties"   -> GepTypeFetched(g, ok)
      [] g.pc = "typePropertySets" -> GepTypePropertySetsFetched(g, ok)
      [] g.pc = "fallback"         -> GepAssociationFetched(g, ok)
      [] g.pc = "fullSet"          -> GepFullSetFetched(g, ok)

\* A click on mesh i of a model attached to the scene, on a face of the
\* element expressID: pickObject, selectObject and the selection callback,
\* first with null (the panel is cleared, the highlight removed), then with
\* the mesh, up to the callback's await of getElementProperties. With the
\* properties panel hidden no properties are requested. A call that returns
\* null before its first request resumes the callback in the same turn.
PickObject(l, i, expressID, clearOk, removeOk, createOk) ==
    /\ l \in sceneModels
    /\ i \in DOMAIN models[l].meshes
    /\ propPanelHidden \/ Len(fetches) < MaxFetches
    /\ LET mesh == PickedMesh(models[l], i, expressID)
           h == SelectObjectOf(Highlight(currentSubset, parserSubsets, <<>>),
                               LiveModel, mesh, clearOk, removeOk, createOk)
           g == [ mesh |-> <<l, i>>,
                  call |-> GepCall(mesh.expressID,
                                   IF mesh.modelID = 0 THEN 0 ELSE mesh.modelID) ]
       IN  /\ models' = [models EXCEPT ![l].meshes[i] = mesh]
           /\ currentSubset' = h.currentSubset
           /\ parserSubsets' = h.parserSubsets
           /\ subsetCalls' = LastOperation("pickObject", h)
           /\ selectedObject' = << <<l, i>> >>
           /\ IF propPanelHidden
              THEN propPanel' = Placeholder /\ UNCHANGED fetches
              ELSE IF g.call.pc = "returned"
              THEN propPanel' = PanelAfter(g.call) /\ UNCHANGED fetches
              ELSE propPanel' = LoadingProperties /\ fetches' = Append(fetches, g)
    /\ UNCHANGED <<loaderReady, loads, sceneModels, currentModel, live, progress>>
    /\ UNCHANGED <<overlayHidden, timers, uiValidate, uiLoads, propPanelHidden>>
    /\ UNCHANGED <<valVars, extractVars>>

\* A click that hits no mesh: pickObject calls deselectObject, and the
\* selection callback, called with null, clears the panel and the highlight.
PickNothing(clearOk) ==
    /\ LET h == DeselectObjectOf(Highlight(currentSubset, parserSubsets, <<>>), clearOk)
       IN  /\ currentSubset' = h.currentSubset
           /\ parserSubsets' = h.parserSubsets
           /\ subsetCalls' = LastOperation("deselectObject", h)
    /\ selectedObject' = <<>>
    /\ propPanel' = Placeholder
    /\ UNCHANGED <<loaderReady, loads, models, sceneModels, currentModel, live,
                   progress>>
    /\ UNCHANGED <<overlayHidden, timers, uiValidate, uiLoads, propPanelHidden, fetches>>
    /\ UNCHANGED <<valVars, extractVars>>

\* A parser request of the k-th pending getElementProperties call settles;
\* when the call returns, the selection callback that awaits it resumes and
\* overwrites the panel with what the call fetched, whatever is selected by
\* now.
PropertyFetchSettled(k, ok) ==
    /\ k \in DOMAIN fetches
    /\ LET call == GepSettled(fetches[k].call, ok)
       IN  IF call.pc = "returned"
           THEN /\ propPanel' = PanelAfter(call)
                /\ fetches' = [ n \in 1..(Len(fetches) - 1) |->
                                  IF n < k THEN fetches[n] ELSE fetches[n + 1] ]
           ELSE /\ fetches' = [fetches EXCEPT ![k].call = call]
                /\ UNCHANGED propPanel
    /\ UNCHANGED <<overlayHidden, timers, uiValidate, uiLoads, propPanelHidden,
                   selectedObject>>
    /\ UNCHANGED <<lifeVars, valVars, extractVars>>

\* The toggle button: the validation panel and the properties panel swap
\* their 'hidden' class.
TogglePanels ==
    /\ propPanelHidden' = ~propPanelHidden
    /\ UNCHANGED <<overlayHidden, timers, uiValidate, uiLoads, propPanel, fetches,
                   selectedObject>>
    /\ UNCHANGED <<lifeVars, valVars, extractVars>>

\* ------------------------------------------------------------ specification

Init == InitManager /\ InitValidator /\ InitExtractor /\ InitUI

Next ==
    \/ \E ok \in BOOLEAN : SetupLoaderDone(ok)
    \/ LoadIFC
    \/ \E l \in 1..MaxLoads, shape \in ModelCatalog : ParserLoaded(l, shape)
    \/ \E l \in 1..MaxLoads, shape \in ModelCatalog : SetupEdgesFailed(l, shape)
    \/ \E l \in 1..MaxLoads : ParserFailed(l)
    \/ \E modelID \in 0..(MaxLoads - 1), expressID \in ExpressIDs :
          HighlightElement(modelID, expressID, TRUE, TRUE)
    \/ RemoveHighlight(TRUE)

\* The lifecycle with a parser whose subset calls succeed.
Spec == Init /\ [][Next]_vars

\* ---------------------------------------------- specification of loading

\* loadIFC calls alone: the engine setup, the calls, the parser's answers.
LoadNext ==
    \/ \E ok \in BOOLEAN : SetupLoaderDone(ok)
    \/ LoadIFC
    \/ \E l \in 1..MaxLoads, shape \in ModelCatalog : ParserLoaded(l, shape)
    \/ \E l \in 1..MaxLoads, shape \in ModelCatalog : SetupEdgesFailed(l, shape)
    \/ \E l \in 1..MaxLoads : ParserFailed(l)

SpecLoad == Init /\ [][LoadNext]_vars

\* ------------------------------------------- specification of highlighting

\* The models loaded while highlights are made: one without a mesh, one with
\* a mesh away from the origin.
HighlightCatalog ==
    { [position |-> 0, meshes |-> ms] : ms \in { <<>>, << ParsedMesh(0, 2, 6) >> } }

\* The lifecycle with a parser whose subset calls may throw; the highlights
\* are asked for element 1 of a model.
HighlightNext ==
    \/ \E ok \in BOOLEAN : SetupLoaderDone(ok)
    \/ LoadIFC
    \/ \E l \in 1..MaxLoads, shape \in HighlightCatalog : ParserLoaded(l, shape)
    \/ \E l \in 1..MaxLoads : ParserFailed(l)
    \/ \E modelID \in 0..(MaxLoads - 1), removeOk \in BOOLEAN, createOk \in BOOLEAN :
          HighlightElement(modelID, 1, removeOk, createOk)
    \/ \E ok \in BOOLEAN : RemoveHighlight(ok)

SpecHighlight == Init /\ [][HighlightNext]_vars

\* ----------------------------------------------- specification of selection

\* The models loaded while elements are picked: one without a mesh, one with
\* two meshes away from the origin.
PickCatalog == { [position |-> 4, meshes |-> << ParsedMesh(0, 0, 4) >>] }

\* The faces clicked carry no expressID attribute, or belong to element 1 or 2.
PickedFaces == {NoExpressID, 1, 2}

\* Loads, clicks in the scene, highlights asked for from the validation
\* report and a validation run, in any order; the parser's subset calls
\* succeed.
PickNext ==
    \/ SetupLoaderDone(TRUE)
    \/ LoadIFC
    \/ \E l \in 1..MaxLoads, shape \in PickCatalog : ParserLoaded(l, shape)
    \/ \E l \in 1..MaxLoads : ParserFailed(l)
    \/ \E l \in 1..MaxLoads, expressID \in PickedFaces :
          PickObject(l, 1, expressID, TRUE, TRUE, TRUE)
    \/ PickNothing(TRUE)
    \/ ValidateModel(<< WallPsetRule >>)
    \/ ItemPropertiesDone(TRUE)
    \/ PropertySetsDone(TRUE)

\* The toggle button has been clicked once: the validation panel is open
\* and the properties panel hidden.
PickInit ==
    /\ InitManager /\ InitValidator /\ InitExtractor
    /\ overlayHidden = TRUE
    /\ timers = <<>>
    /\ uiValidate = [pc |-> "idle", rules |-> <<>>]
    /\ uiLoads = {}
    /\ propPanelHidden = TRUE
    /\ propPanel = Placeholder
    /\ fetches = <<>>
    /\ selectedObject = <<>>

SpecPick == PickInit /\ [][PickNext]_vars

\* ------------------------------------------- specification of validation

\* A model whose meshes carry the given expressIDs (0: none): the parser or
\* SceneManager.pickObject has stored them on the meshes.
ShapeWithElements(ids) ==
    [ position |-> 0,
      meshes   |-> [ i \in DOMAIN ids |->
                       [ParsedMesh(0, 2, 6) EXCEPT !.expressID = ids[i]] ] ]

ElementLists ==
    UNION { [1..n -> 0..Len(IfcFile)] : n \in 0..MaxMeshes }

\* The manager after one loadIFC call has returned the model of a shape.
InitLoaded(shape) ==
    LET m == CenterOnLoad(Parsed(shape, 0))
    IN  /\ loaderReady = "resolved"
        /\ loads = << [ pc |-> "returned", sequential |-> TRUE,
                        hadHighlight |-> FALSE, replaced |-> NoModel,
                        ready |-> "resolved", parserLoad |-> TRUE,
                        notified |-> << Notify(100, "Complete!") >> ] >>
        /\ models = << m >>
        /\ sceneModels = {1}
        /\ currentModel = 1
        /\ live = ParsedResources(1, m) \cup SetupEdges(1, m)
        /\ currentSubset = <<>>
        /\ parserSubsets = {}
        /\ progress = Notify(100, "Complete!")
        /\ subsetCalls = [op |-> "none", active |-> FALSE, calls |-> <<>>]

\* validateModel is called on a manager with no model, or with a loaded one.
ValInit ==
    /\ \/ InitManager
       \/ \E ids \in ElementLists : InitLoaded(ShapeWithElements(ids))
    /\ InitValidator
    /\ InitExtractor
    /\ InitUI

ValNext ==
    \/ \E rules \in RuleLists : ValidateModel(rules)
    \/ \E ok \in BOOLEAN : ItemPropertiesDone(ok)
    \/ \E ok \in BOOLEAN : PropertySetsDone(ok)

SpecVal == ValInit /\ [][ValNext]_vars

\* ------------------------- specification of validation with incomplete rules

PartialNext ==
    \/ \E rules \in PartialRuleLists : ValidateModel(rules)
    \/ \E ok \in BOOLEAN : ItemPropertiesDone(ok)
    \/ \E ok \in BOOLEAN : PropertySetsDone(ok)

SpecPartial == ValInit /\ [][PartialNext]_vars

\* ------------------------------- specification of repeated validation runs

\* The models of the repeated runs, as the expressIDs their meshes carry.
RerunElementLists ==
    { <<>>, <<1>>, <<3, 1>>, <<1, 5>>, <<6, 8>>, <<4, 0, 2>> }

RerunInit ==
    /\ \/ InitManager
       \/ \E ids \in RerunElementLists : InitLoaded(ShapeWithElements(ids))
    /\ InitValidator
    /\ InitExtractor
    /\ InitUI

\* The caller validates again with the rule list it used before.
ValidateModelAgain(rules) ==
    /\ valRuns # <<>> => rules = valRuns[Len(valRuns)].rules
    /\ ValidateModel(rules)

RerunNext ==
    \/ \E rules \in RuleLists : ValidateModelAgain(rules)
    \/ \E ok \in BOOLEAN : ItemPropertiesDone(ok)
    \/ \E ok \in BOOLEAN : PropertySetsDone(ok)
    \/ ValidationReturned

SpecRerun == RerunInit /\ [][RerunNext]_vars

\* ------------------------------- specification of the properties panel

\* The faces clicked while properties are shown: of no element, of the wall
\* 1 (four associations), of the slab 5.
SelectedFaces == {NoExpressID, 1, 5}

SelectInit ==
    /\ \E shape \in PickCatalog : InitLoaded(shape)
    /\ InitValidator
    /\ InitExtractor
    /\ InitUI

\* The parser rejects the first request of a pending call: the call returns
\* null.
PropertiesRequestRejected(k) ==
    /\ k \in DOMAIN fetches
    /\ fetches[k].call.pc = "properties"
    /\ PropertyFetchSettled(k, FALSE)

\* Clicks in the scene and on the toggle button, and the parser answering
\* the property requests of the pending calls in any order.
SelectNext ==
    \/ \E expressID \in SelectedFaces : PickObject(1, 1, expressID, TRUE, TRUE, TRUE)
    \/ PickNothing(TRUE)
    \/ \E k \in 1..MaxFetches : PropertyFetchSettled(k, TRUE)
    \/ \E k \in 1..MaxFetches : PropertiesRequestRejected(k)
    \/ TogglePanels

SpecSelect == SelectInit /\ [][SelectNext]_vars

\* ------------------------------- specification of the loading overlay

OverlayInit ==
    /\ InitLoaded(ShapeWithElements(<<1>>))
    /\ InitValidator
    /\ InitExtractor
    /\ InitUI

\* Files chosen, the Validate button clicked, the parser's answers, the
\* handlers resuming and the timers firing.
OverlayNext ==
    \/ FileInputChange
    \/ \E l \in 1..MaxLoads, shape \in PickCatalog : ParserLoaded(l, shape)
    \/ \E l \in 1..MaxLoads : ParserFailed(l)
    \/ \E l \in 1..MaxLoads : FileHandlerResumes(l)
    \/ ValidateClicked(<< WallPsetRule >>)
    \/ ValidateDelayElapsed
    \/ ItemPropertiesDone(TRUE)
    \/ PropertySetsDone(TRUE)
    \/ ValidateHandlerResumes
    \/ HideTimerFires

SpecOverlay == OverlayInit /\ [][OverlayNext]_vars

\* ------------------------- specification of validation across a reload

\* The models being validated when another file is loaded, as the
\* expressIDs their meshes carry.
ReloadElementLists == { <<1>>, <<2, 1>>, <<1, 5>> }

ReloadInit ==
    /\ \E ids \in ReloadElementLists : InitLoaded(ShapeWithElements(ids))
    /\ InitValidator
    /\ InitExtractor
    /\ InitUI

\* A validation run and loadIFC calls, in any order.
ReloadNext ==
    \/ LoadIFC
    \/ \E l \in 1..MaxLoads, shape \in HighlightCatalog : ParserLoaded(l, shape)
    \/ \E l \in 1..MaxLoads : ParserFailed(l)
    \/ \E rules \in { << WallRule >>, << SlabRule, WallPsetRule >> } : ValidateModel(rules)
    \/ \E ok \in BOOLEAN : ItemPropertiesDone(ok)
    \/ \E ok \in BOOLEAN : PropertySetsDone(ok)

SpecReload == ReloadInit /\ [][ReloadNext]_vars

\* The parser answers every request, with the data or with a rejection.
ParserAnswers ==
    /\ WF_vars(\E ok \in BOOLEAN : ItemPropertiesDone(ok))
    /\ WF_vars(\E ok \in BOOLEAN : PropertySetsDone(ok))

SpecReloadFair == SpecReload /\ ParserAnswers

\* ----------------------------------- specification of property extraction

\* The element picked: a mesh of the loaded model that carries its expressID,
\* or one that carries none.
ExtractInit ==
    /\ InitLoaded(ShapeWithElements(<<0, 1, 2, 5, 7>>))
    /\ InitValidator
    /\ InitExtractor
    /\ InitUI

ExtractNext ==
    \/ \E expressID \in ExtractedElements : GetElementProperties(expressID)
    \/ \E ok \in BOOLEAN : PropertiesFetched(ok)
    \/ \E ok \in BOOLEAN : PropertySetsFetched(ok)
    \/ \E ok \in BOOLEAN : MaterialFetched(ok)
    \/ \E ok \in BOOLEAN : TypeFetched(ok)
    \/ \E ok \in BOOLEAN : TypePropertySetsFetched(ok)
    \/ \E ok \in BOOLEAN : AssociationFetched(ok)
    \/ \E ok \in BOOLEAN : FullSetFetched(ok)

SpecExtract == ExtractInit /\ [][ExtractNext]_vars

\* ------------------------------------ specification of long validation runs

\* A model of n meshes, walls without property sets and slabs in turn.
LongElementList(n) == [ i \in 1..n |-> IF i % 2 = 1 THEN 1 ELSE 5 ]

\* The requests of the run the parser has rejected so far.
FailedFetches ==
    Cardinality({ i \in DOMAIN valLog :
                    valLog[i].fetched \in {"propsFailed", "psetsFailed"} })

LongInit ==
    /\ \E n \in 0..MaxElements : InitLoaded(ShapeWithElements(LongElementList(n)))
    /\ InitValidator
    /\ InitExtractor
    /\ InitUI

\* The parser rejects at most MaxFailedFetches requests of a long run.
FetchSettles(ok) == ok \/ FailedFetches < MaxFailedFetches

LongItemPropertiesDone(ok) == FetchSettles(ok) /\ ItemPropertiesDone(ok)

LongPropertySetsDone(ok) == FetchSettles(ok) /\ PropertySetsDone(ok)

LongNext ==
    \/ \E rules \in { <<>>, << WallRule >> } : ValidateModel(rules)
    \/ \E ok \in BOOLEAN : LongItemPropertiesDone(ok)
    \/ \E ok \in BOOLEAN : LongPropertySetsDone(ok)

SpecLong == LongInit /\ [][LongNext]_vars

\* ------------------------------------------------- claims on the lifecycle

\* C1: in every reachable state at most one model object is attached to the
\* scene, and an attached model is the one getCurrentModel returns, also when
\* a second loadIFC call is made while the first awaits the parser.
C1_AtMostOneModelAttached ==
    /\ Cardinality(sceneModels) <= 1
    /\ sceneModels # {} => sceneModels = {currentModel}

\* C2: when a load that replaced a model completes and a highlight existed
\* when that load started, currentSubset is empty and the parser holds no
\* highlight subset of the replaced model.
C2_ReloadClearsHighlight ==
    [][ \A l \in DOMAIN loads :
          ( /\ loads[l].pc = "awaitParser"
            /\ loads'[l].pc = "returned"
            /\ loads[l].hadHighlight
            /\ loads[l].replaced # NoModel )
          => ( /\ currentSubset' = <<>>
               /\ \A s \in parserSubsets' :
                      s.modelID # models[loads[l].replaced].modelID ) ]_vars

\* The resources created for model object id that are not disposed.
LiveOf(id) == { r \in live : r[1] = id }

\* C3: after two successive loadIFC calls (the second made after the first
\* had returned) have both returned, no geometry or material created for the
\* first model, its edge geometries included, is left undisposed.
C3_FirstModelReleased ==
    \A l \in DOMAIN loads :
        ( /\ l > 1
          /\ loads[l].sequential
          /\ loads[l].replaced = l - 1
          /\ loads[l].pc = "returned" )
        => LiveOf(l - 1) = {}

\* C4: whenever a highlight is active and a model is live, the translation
\* applied to the highlight's vertices equals the translation applied to the
\* vertices of the live model.
C4_HighlightInModelFrame ==
    (currentSubset # <<>> /\ currentModel # NoModel)
    => currentSubset[1].translated = models[currentModel].translated

\* C5: after centerModel, the centre of the union of the world-space bounding
\* boxes of the meshes of a model with at least one mesh is zero, whatever
\* the positions the container and the meshes came with.
C5_CenteredAtOrigin ==
    \A id \in DOMAIN models :
        Len(models[id].meshes) > 0
        => BBoxMin(models[id]) + BBoxMax(models[id]) = 0

\* ------------------------------------------------ claims on the validator

Range(seq) == { seq[i] : i \in DOMAIN seq }

\* The number of times x occurs in a list.
Count(list, x) == Cardinality({ i \in DOMAIN list : list[i] = x })

LowerChar(c) ==
    IF \E i \in DOMAIN UpperChars : UpperChars[i] = c
    THEN LowerChars[CHOOSE i \in DOMAIN UpperChars : UpperChars[i] = c]
    ELSE c

\* t occurs in s at some place, letters compared without regard to case.
CaseInsensitiveSubstring(t, s) ==
    \E i \in 0..(Len(s) - Len(t)) :
        \A j \in 1..Len(t) : LowerChar(s[i + j]) = LowerChar(t[j])

\* The element's uppercased class name.
ClassName(el) == ToUpperCase(IfcType(el))

\* The names of the property sets fetched for an element.
PsetNames(el) ==
    { el.psets[i].Name[1] : i \in { k \in DOMAIN el.psets : el.psets[k].Name # <<>> } }

\* The property sets of an element that carry a given name.
SetsNamed(el, name) ==
    { i \in DOMAIN el.psets : el.psets[i].Name = <<name>> }

\* The names of the properties a property set carries.
PropertyNames(ps) ==
    IF ps.HasProperties = <<>> THEN {} ELSE Range(ps.HasProperties[1])

Applies(rule, el) == CaseInsensitiveSubstring(rule.ifcClass, ClassName(el))

\* A required property set of the rule is absent from the element.
MissingRequiredPset(rule, el) ==
    \E n \in Range(rule.requiredPsets) : n \notin PsetNames(el)

\* A required property of a set the element has (the first of that name, where
\* several carry it) is absent from that set.
MissingRequiredProperty(rule, el) ==
    \E e \in Range(rule.requiredProperties) :
        /\ SetsNamed(el, e[1]) # {}
        /\ \E q \in Range(e[2]) :
              q \notin PropertyNames(el.psets[SetMin(SetsNamed(el, e[1]))])

FailsRules(rules, el) ==
    \E k \in DOMAIN rules :
        /\ Applies(rules[k], el)
        /\ MissingRequiredPset(rules[k], el) \/ MissingRequiredProperty(rules[k], el)

AllFetchesSucceeded ==
    \A i \in DOMAIN valLog : valLog[i].fetched \in {"props", "psets"}

\* C6 as stated: validateModel called with no model loaded ends with a
\* NoModelLoaded error, not with a result list.
C6_NoModelLoadedError ==
    (valPc = "returned" /\ valModel = NoModel) => valOutcome = "NoModelLoaded"

\* C6, amended: validateModel called with no model loaded returns normally
\* with an empty result list; it requests nothing from the parser and reports
\* no progress.
C6_NoModelReturnsEmpty ==
    (valPc = "returned" /\ valModel = NoModel)
    => /\ valOutcome = "returned"
       /\ valResults = <<>>
       /\ parserCalls = <<>>
       /\ valProgress = <<>>

C6_Witness == valPc = "returned" /\ valModel = NoModel /\ valRules # <<>>

\* C7: when every parser fetch of a run succeeded, the returned list holds,
\* in traversal order, exactly the elements with an applicable rule and a
\* missing required property set or property, each with passed = false.
C7_ExactlyTheFailingElements ==
    (valPc = "returned" /\ valModel # NoModel /\ AllFetchesSucceeded)
    => /\ [ i \in DOMAIN valResults |-> valResults[i].elementID ]
            = SelectSeq([ i \in DOMAIN valMeshes |-> valMeshes[i].expressID ],
                        LAMBDA id : FailsRules(valRules, IfcFile[id]))
       /\ \A i \in DOMAIN valResults : ~valResults[i].passed

\* C8: a rule is applied to an element exactly when its class token is a
\* case-insensitive substring of the element's uppercased class name, and an
\* element no rule applies to yields no result, passing or failing.
C8_RuleAppliesBySubstring ==
    \A i \in DOMAIN valLog :
        valLog[i].fetched # "propsFailed"
        => /\ Range(valLog[i].applicable)
                = { k \in DOMAIN valRules :
                      Applies(valRules[k], ElementOf(valLog[i].mesh)) }
           /\ valLog[i].applicable = <<>> => valLog[i].result = <<>>

C8_Witness ==
    /\ valPc = "returned"
    /\ \E i \in DOMAIN valLog :
          \E k \in Range(valLog[i].applicable) :
              /\ valRules[k].ifcClass # ToUpperCase(valRules[k].ifcClass)
              /\ valRules[k].ifcClass # ClassName(ElementOf(valLog[i].mesh))
    /\ \E i \in DOMAIN valLog :
          valLog[i].fetched = "props" /\ valLog[i].applicable = <<>>

\* The required property-set names of the rules applied to a logged element
\* that no fetched set of the element carries.
AbsentRequiredPsets(entry) ==
    UNION { Range(valRules[k].requiredPsets) : k \in Range(entry.applicable) }
        \ PsetNames(ElementOf(entry.mesh))

\* C9: in the result of an element with an applicable rule, every required
\* property-set name that no fetched set carries (names compared exactly)
\* occurs exactly once in missingPsets, and missingProperties has no entry for
\* a property set the element does not have.
C9_MissingPsetsOnce ==
    \A i \in DOMAIN valLog :
        valLog[i].result # <<>>
        => /\ \A n \in AbsentRequiredPsets(valLog[i]) :
                 Count(valLog[i].result[1].missingPsets, n) = 1
           /\ \A n \in DOMAIN valLog[i].result[1].missingProperties :
                 n \in PsetNames(ElementOf(valLog[i].mesh))

C9_Witness ==
    \E i \in DOMAIN valLog :
        /\ valLog[i].result # <<>>
        /\ Len(valLog[i].applicable) > 1
        /\ "Pset_WallCommon" \in AbsentRequiredPsets(valLog[i])
        /\ "PSET_WALLCOMMON" \in PsetNames(ElementOf(valLog[i].mesh))
        /\ Cardinality({ k \in Range(valLog[i].applicable) :
                           "Pset_WallCommon" \in Range(valRules[k].requiredPsets) }) > 1

\* The entries <<set name, required names>> of the rules applied to a logged
\* element whose set the element has, every set of that name carrying no
\* properties (HasProperties absent or empty).
EmptySetRequirements(entry) ==
    { e \in UNION { Range(valRules[k].requiredProperties) :
                       k \in Range(entry.applicable) } :
        /\ SetsNamed(ElementOf(entry.mesh), e[1]) # {}
        /\ \A s \in SetsNamed(ElementOf(entry.mesh), e[1]) :
              PropertyNames(ElementOf(entry.mesh).psets[s]) = {} }

\* The result lists every required property of the entry as missing and
\* reports the element as failing.
ReportsAllMissing(result, e) ==
    /\ ~result.passed
    /\ e[1] \in DOMAIN result.missingProperties
    /\ Range(e[2]) \subseteq Range(result.missingProperties[e[1]])

\* C10 as stated: for a required-properties entry naming a set the element
\* has without any properties, the result lists every required property of
\* that set under missingProperties and the element is reported as failing.
C10_EmptySetAllMissing ==
    \A i \in DOMAIN valLog :
        valLog[i].result # <<>>
        => \A e \in EmptySetRequirements(valLog[i]) :
              ReportsAllMissing(valLog[i].result[1], e)

\* C10, amended: the same for an entry that requires at least one property.
C10_EmptySetAllMissingNonEmpty ==
    \A i \in DOMAIN valLog :
        valLog[i].result # <<>>
        => \A e \in EmptySetRequirements(valLog[i]) :
              e[2] # <<>> => ReportsAllMissing(valLog[i].result[1], e)

C10_Witness ==
    /\ \E i \in DOMAIN valLog :
          /\ valLog[i].result # <<>>
          /\ \E s \in SetsNamed(ElementOf(valLog[i].mesh), "Pset_WallCommon") :
                ElementOf(valLog[i].mesh).psets[s].HasProperties = <<>>
          /\ \E e \in EmptySetRequirements(valLog[i]) : Len(e[2]) > 1
    /\ \E i \in DOMAIN valLog :
          /\ valLog[i].result # <<>>
          /\ \E s \in SetsNamed(ElementOf(valLog[i].mesh), "Pset_WallCommon") :
                ElementOf(valLog[i].mesh).psets[s].HasProperties = << <<>> >>
          /\ \E e \in EmptySetRequirements(valLog[i]) : Len(e[2]) > 1

\* ------------------------------------------------ claims on long runs

Abs(x) == IF x < 0 THEN -x ELSE x

\* p is the integer nearest to 100 * processed / total
IsRoundedPercent(p, processed, total) ==
    2 * Abs(p * total - 100 * processed) <= total

\* C11: during a validateModel run the progress callback has been invoked
\* once for every tenth element processed so far (failed elements count),
\* each time with the rounded percentage of the elements processed at that
\* moment, and once more with 100 when the run has returned; the values never
\* decrease, never exceed 100, and the last value of a returned run is 100.
C11_ProgressEveryTenth ==
    (valModel # NoModel /\ valPc # "idle")
    => LET total == Len(valMeshes)
           tenths == valProcessed \div 10
       IN  /\ valProcessed = Len(valLog)
           /\ \A k \in 1..tenths :
                 /\ k \in DOMAIN valProgress
                 /\ IsRoundedPercent(valProgress[k], 10 * k, total)
           /\ IF valPc = "returned"
              THEN /\ valProcessed = total
                   /\ Len(valProgress) = tenths + 1
                   /\ valProgress[tenths + 1] = 100
              ELSE Len(valProgress) = tenths
           /\ \A k \in DOMAIN valProgress :
                 /\ valProgress[k] <= 100
                 /\ k > 1 => valProgress[k - 1] <= valProgress[k]

\* A returned run over more than twenty elements, one of them skipped on a
\* failed request: three notifications.
C11_Witness ==
    /\ valPc = "returned"
    /\ Len(valMeshes) > 20
    /\ Len(valProgress) = 3
    /\ valProgress[1] < valProgress[2]
    /\ FailedFetches > 0

\* ------------------------------------------- claims on repeated runs

\* The calls that have returned: those handed to the caller and the current one.
ReturnedRuns ==
    IF valPc = "returned" THEN Append(valRuns, FinishedRun) ELSE valRuns

\* C12: two validateModel runs on the same live model with the same rule
\* list, to which the parser gave the same answers, returned identical result
\* lists (same entries in the same order).
C12_RerunSameResults ==
    \A i, j \in DOMAIN ReturnedRuns :
        ( /\ ReturnedRuns[i].rules = ReturnedRuns[j].rules
          /\ ReturnedRuns[i].model = ReturnedRuns[j].model
          /\ ReturnedRuns[i].answers = ReturnedRuns[j].answers )
        => ReturnedRuns[i].results = ReturnedRuns[j].results

\* Two returned runs with the same rules and answers that reported two
\* failing elements.
C12_Witness ==
    /\ Len(ReturnedRuns) = 2
    /\ ReturnedRuns[1].rules = ReturnedRuns[2].rules
    /\ ReturnedRuns[1].answers = ReturnedRuns[2].answers
    /\ Len(ReturnedRuns[2].results) = 2
    /\ ReturnedRuns[2].results[1] # ReturnedRuns[2].results[2]

\* ------------------------------------------- claims on element identity

\* C13: the result list of a validateModel run holds at most one entry per
\* element identity (modelID, expressID).
C13_OneEntryPerElement ==
    \A i, j \in DOMAIN valResults :
        ( /\ valResults[i].modelID = valResults[j].modelID
          /\ valResults[i].elementID = valResults[j].elementID )
        => i = j

\* ------------------------------------------- claims on property extraction

\* C14: getElementProperties called for an element returns null only when
\* the fetch of the base properties failed; when only later steps failed it
\* returns a bundle with the base properties.
C14_NullOnlyOnPrimaryFailure ==
    (gep.pc = "returned" /\ gep.expressID # NoExpressID)
    => IF \E k \in DOMAIN gep.failed : gep.failed[k] = "properties"
       THEN gep.outcome = "null"
       ELSE /\ gep.outcome = "bundle"
            /\ gep.bundle[1].properties = ItemProperties(gep.expressID)

\* C15: getElementProperties never rejects: whatever parser requests fail,
\* the call completes with a bundle or with null.
C15_NeverRejects ==
    /\ gep.outcome \in {"none", "null", "bundle"}
    /\ gep.pc = "returned" =>
          /\ gep.outcome \in {"null", "bundle"}
          /\ gep.outcome = "bundle" <=> gep.bundle # <<>>

\* A completed call in which a request after the first two failed and a
\* bundle was returned.
C15_Witness ==
    /\ gep.pc = "returned"
    /\ gep.failed # <<>>
    /\ gep.outcome = "bundle"
    /\ Len(gep.calls) > 3

\* ------------------------------------------------- claims on loading

\* C16: in the step in which a loadIFC call rejects its caller, no model is
\* live afterwards: currentModel is null and no model object is attached to
\* the scene.
C16_RejectedLoadLeavesNoModel ==
    [][ \A l \in DOMAIN loads' :
          ( /\ loads'[l].pc = "rejected"
            /\ l \in DOMAIN loads => loads[l].pc # "rejected" )
          => ( currentModel' = NoModel /\ sceneModels' = {} ) ]_vars

\* C17: the last notification delivered to the progress callback of a
\* loadIFC call that has rejected (engine setup failure or load failure)
\* carries percentage 0 and the error status.
C17_RejectedLoadNotifiesError ==
    \A l \in DOMAIN loads :
        loads[l].pc = "rejected"
        => loads[l].notified = << Notify(0, "Error loading model") >>

\* C18: loader.load has been called only by loadIFC calls that found the
\* engine setup completed successfully; after a failed setup every loadIFC
\* call, made before or after the failure, has rejected without calling
\* loader.load.
C18_LoadOnlyAfterSetup ==
    /\ \A l \in DOMAIN loads : loads[l].parserLoad => loaderReady = "resolved"
    /\ loaderReady = "rejected"
         => \A l \in DOMAIN loads : loads[l].pc = "rejected" /\ ~loads[l].parserLoad

\* A failed setup with a call made before the failure and one made after it.
C18_Witness ==
    /\ loaderReady = "rejected"
    /\ \E l \in DOMAIN loads : loads[l].ready = "pending"
    /\ \E l \in DOMAIN loads : loads[l].ready = "rejected"

\* ------------------------------------------------- claims on highlights

\* C19: the parser holds at most one highlight subset, and it holds one
\* exactly when currentSubset is non-empty, also after parser subset calls
\* that threw.
C19_AtMostOneHighlight ==
    /\ Cardinality(parserSubsets) <= 1
    /\ parserSubsets # {} <=> currentSubset # <<>>

\* The manager state a highlight operation leaves, without its call history.
HighlightState(h) == <<h.currentSubset, h.parserSubsets>>

\* C20: a removeHighlight call made while no highlight is active makes no
\* parser call and changes nothing in the manager; and the states two calls
\* in a row can leave are the states one call can leave.
C20_ClearIsIdempotent ==
    /\ [][ (currentSubset = <<>> /\ \E ok \in BOOLEAN : RemoveHighlight(ok))
           => ( /\ subsetCalls'.calls = <<>>
                /\ UNCHANGED <<loaderReady, loads, models, sceneModels, currentModel,
                               live, currentSubset, parserSubsets, progress>> ) ]_vars
    /\ [] LET h == Highlight(currentSubset, parserSubsets, <<>>)
          IN  { HighlightState(RemoveHighlightOf(RemoveHighlightOf(h, a), b)) :
                    a \in BOOLEAN, b \in BOOLEAN }
              = { HighlightState(RemoveHighlightOf(h, a)) : a \in BOOLEAN }

\* removeHighlight was called with a model live and no highlight active.
C20_Witness ==
    /\ subsetCalls.op = "removeHighlight"
    /\ ~subsetCalls.active
    /\ currentSubset = <<>>
    /\ currentModel # NoModel

\* ------------------------------------------------- claims on centering

\* C21: centerModel has been invoked at most once on every model object, and
\* no step of a load, a click in the scene, a highlight or a validation run
\* changes the offset of an existing model object, invokes centerModel on it
\* again or translates its vertex data again.
C21_CenteredOnce ==
    /\ [] ( \A l \in DOMAIN models : models[l].centerCalls <= 1 )
    /\ [][ \A l \in DOMAIN models :
              /\ l \in DOMAIN models'
              /\ models'[l].offset = models[l].offset
              /\ models'[l].centerCalls = models[l].centerCalls
              /\ models'[l].translated = models[l].translated ]_vars

\* A centred model that was clicked, highlighted and validated, and then
\* replaced by a second load.
C21_Witness ==
    \E l \in DOMAIN models :
        /\ models[l].offset # <<>>
        /\ models[l].centerCalls = 1
        /\ models[l].meshes[1].expressID # NoExpressID
        /\ valPc = "returned" /\ valModel = l /\ valLog # <<>>
        /\ currentSubset # <<>>
        /\ \E k \in DOMAIN models : k > l /\ currentModel = k

\* A model without a mesh came through its load untouched: the loadIFC call
\* returned, the container is where the parser put it and no vertex data was
\* translated.
LoadedUntouched(l) ==
    /\ loads[l].pc = "returned"
    /\ models[l].position = models[l].parsedAt
    /\ models[l].translated = 0

\* C22 as stated: loading a model without a mesh succeeds, leaves vertex
\* data and container transform unchanged, and the model's offset is the
\* zero vector.
C22_NoMeshZeroOffset ==
    \A l \in DOMAIN models :
        Len(models[l].meshes) = 0
        => LoadedUntouched(l) /\ models[l].offset = << 0 >>

\* C22, amended: loading a model without a mesh succeeds, leaves vertex data
\* and container transform unchanged, and the model's offset is left unset.
C22_NoMeshOffsetUnset ==
    \A l \in DOMAIN models :
        Len(models[l].meshes) = 0
        => LoadedUntouched(l) /\ models[l].offset = <<>>

\* A model without a mesh, parsed away from the origin, has been loaded.
C22_Witness ==
    \E l \in DOMAIN models :
        /\ Len(models[l].meshes) = 0
        /\ models[l].parsedAt # 0
        /\ models[l].centerCalls = 1
        /\ currentModel = l

\* ------------------------------------------- claims on the iterated elements

\* The element identities a validateModel run on the model would iterate over.
ValidationSet(model) ==
    { << MeshModelID(CollectMeshes(model)[i]), CollectMeshes(model)[i].expressID >> :
        i \in DOMAIN CollectMeshes(model) }

\* C25: the set of element identities (modelID, expressID) a validation run
\* iterates over is the same after every step for every loaded model:
\* clicks in the scene and highlights add no element, remove none and change
\* no identifier.
C25_IterationSetFixed ==
    [][ \A l \in DOMAIN models :
          l \in DOMAIN models'
          => ValidationSet(models'[l]) = ValidationSet(models[l]) ]_vars

\* --------------------------------------- claims on failed parser requests

\* What validateElement returns for a mesh when both requests succeed: <<>>
\* for null.
ResultOf(rules, mesh) ==
    LET normalizedType == ClassName(ElementOf(mesh))
        applicable == ApplicableRules(rules, normalizedType)
    IN  IF applicable = <<>> THEN <<>>
        ELSE << ElementResult(mesh, normalizedType, rules, applicable,
                              ElementOf(mesh).psets) >>

\* The list validateModel returns for a list of meshes when every request
\* succeeds.
ResultsOf(rules, meshes) ==
    LET all == [ i \in DOMAIN meshes |-> ResultOf(rules, meshes[i]) ]
        kept == SelectSeq(all, LAMBDA r : r # <<>> /\ ~r[1].passed)
    IN  [ i \in DOMAIN kept |-> kept[i][1] ]

RequestFailed(entry) == entry.fetched \in {"propsFailed", "psetsFailed"}

\* The meshes of the run without those a parser request failed for.
MeshesWithoutFailed ==
    LET kept == SelectSeq([ i \in DOMAIN valLog |-> i ],
                          LAMBDA i : ~RequestFailed(valLog[i]))
    IN  [ k \in DOMAIN kept |-> valMeshes[kept[k]] ]

\* C23: a validateModel run in which parser requests failed has returned
\* normally, every element was processed, an element with a failed
\* request has no entry, and the list returned equals the list returned for
\* the model without the elements whose request failed.
C23_FailedElementSkipped ==
    (valPc = "returned" /\ valModel # NoModel)
    => /\ valOutcome = "returned"
       /\ Len(valLog) = Len(valMeshes)
       /\ \A i \in DOMAIN valLog : RequestFailed(valLog[i]) => valLog[i].result = <<>>
       /\ valResults = ResultsOf(valRules, MeshesWithoutFailed)

\* A returned run over two failing elements: the request of the first was
\* rejected, the second is reported.
C23_Witness ==
    /\ valPc = "returned"
    /\ Len(valMeshes) = 2
    /\ RequestFailed(valLog[1])
    /\ ResultsOf(valRules, << valMeshes[1] >>) # <<>>
    /\ ~RequestFailed(valLog[2])
    /\ Len(valResults) = 1
    /\ valResults[1].elementID = valMeshes[2].expressID

\* --------------------------------------- claims on the order of requests

RECURSIVE Concat(_)
Concat(seqs) == IF seqs = <<>> THEN <<>> ELSE Head(seqs) \o Concat(Tail(seqs))

\* The requests a processed element accounts for: its class, and its
\* property sets when they were asked for.
SettledRequests(entry) ==
    IF entry.fetched \in {"propsFailed", "props"}
    THEN << ParserCall("getItemProperties", entry.mesh) >>
    ELSE << ParserCall("getItemProperties", entry.mesh),
            ParserCall("getPropertySets", entry.mesh) >>

\* The requests of the element being processed: those that have settled,
\* and those the parser has not answered yet.
CurrentSettled ==
    IF valPc = "awaitPsets"
    THEN << ParserCall("getItemProperties", valMeshes[valIdx]) >>
    ELSE <<>>

CurrentOutstanding ==
    CASE valPc = "awaitProps" -> << ParserCall("getItemProperties", valMeshes[valIdx]) >>
      [] valPc = "awaitPsets" -> << ParserCall("getPropertySets", valMeshes[valIdx]) >>
      [] OTHER -> <<>>

SettledSoFar ==
    Concat([ i \in DOMAIN valLog |-> SettledRequests(valLog[i]) ]) \o CurrentSettled

\* C24: the requests of a validateModel run are those of its elements in
\* traversal order; all but at most one of them have settled; and while a
\* request for an element is outstanding every element before it has been
\* processed and no request has been made for an element after it.
C24_OneRequestOutstanding ==
    (valModel # NoModel /\ valPc # "idle")
    => /\ Len(parserCalls) - Len(SettledSoFar) \in {0, 1}
       /\ parserCalls = SettledSoFar \o CurrentOutstanding
       /\ valPc \in {"awaitProps", "awaitPsets"}
             => /\ Len(valLog) = valIdx - 1
                /\ valProcessed = valIdx - 1
                /\ \A i \in DOMAIN valLog : valLog[i].mesh = valMeshes[i]

\* The second element's class is being requested after the first element
\* went through both of its requests.
C24_Witness ==
    /\ valPc = "awaitProps"
    /\ valIdx = 2
    /\ Len(parserCalls) = 3
    /\ valLog[1].fetched = "psets"

\* ----------------------------------------- claims on the reported misses

\* C26: in every result returned by validateModel no list in
\* missingProperties holds the same property name twice.
C26_MissingPropertiesDeduplicated ==
    \A i \in DOMAIN valResults :
        \A n \in DOMAIN valResults[i].missingProperties :
            \A q \in Range(valResults[i].missingProperties[n]) :
                Count(valResults[i].missingProperties[n], q) = 1

\* The property-set names the requiredProperties of the rules applied to a
\* logged element name and no fetched set of the element carries.
AbsentPropertySets(entry) ==
    { e[1] : e \in UNION { Range(valRules[k].requiredProperties) :
                              k \in Range(entry.applicable) } }
        \ PsetNames(ElementOf(entry.mesh))

\* C27: an element whose property sets were fetched and that lacks a
\* property set named in the requiredProperties of an applicable rule is
\* reported as failing with that set in missingPsets, whether or not the rule
\* lists the set in requiredPsets.
C27_AbsentSetOfPropertiesReported ==
    \A i \in DOMAIN valLog :
        valLog[i].fetched = "psets"
        => \A n \in AbsentPropertySets(valLog[i]) :
              /\ valLog[i].result # <<>>
              /\ ~valLog[i].result[1].passed
              /\ n \in Range(valLog[i].result[1].missingPsets)

\* ----------------------------------------- claims on incomplete rules

\* The field of a rule, empty when the rule leaves it out.
FieldOrEmpty(rule, field) == IF field \in DOMAIN rule THEN rule[field] ELSE <<>>

\* The rule as it reads with the fields it leaves out taken as empty.
Completed(rule) ==
    Rule(rule.ifcClass, FieldOrEmpty(rule, "requiredPsets"),
         FieldOrEmpty(rule, "requiredProperties"))

\* C28: an element whose property sets were fetched and that fails a
\* requirement of an applicable rule, the fields a rule leaves out
\* (requiredProperties or requiredPsets) taken as empty, is reported as
\* failing.
C28_OmittedFieldTakenAsEmpty ==
    \A i \in DOMAIN valLog :
        ( /\ valLog[i].fetched \notin {"propsFailed", "psetsFailed"}
          /\ \E k \in Range(valLog[i].applicable) :
                \/ MissingRequiredPset(Completed(valRules[k]), ElementOf(valLog[i].mesh))
                \/ MissingRequiredProperty(Completed(valRules[k]),
                                           ElementOf(valLog[i].mesh)) )
        => \E j \in DOMAIN valResults :
              /\ valResults[j].elementID = valLog[i].mesh.expressID
              /\ ~valResults[j].passed

\* ----------------------------------- claims on the property-set requests

\* The elements processed so far and the one waiting for its property sets.
ClassFetched ==
    LET done == SelectSeq([ i \in DOMAIN valLog |-> valLog[i] ],
                          LAMBDA entry : entry.fetched # "propsFailed")
    IN  [ i \in DOMAIN done |-> done[i].mesh ]
        \o (IF valPc = "awaitPsets" THEN << valMeshes[valIdx] >> ELSE <<>>)

\* Some rule of the run applies to the element of the mesh.
HasApplicableRule(mesh) ==
    \E k \in DOMAIN valRules : Applies(valRules[k], ElementOf(mesh))

\* C29: the getPropertySets requests of a validateModel run are, in order,
\* one request for each element whose class was fetched and to which at
\* least one rule applies; there is none for an element no rule applies to.
C29_PropertySetsFetchedOnce ==
    (valModel # NoModel /\ valPc # "idle")
    => SelectSeq(parserCalls, LAMBDA call : call.fn = "getPropertySets")
         = LET wanted == SelectSeq(ClassFetched, HasApplicableRule)
           IN  [ i \in DOMAIN wanted |-> ParserCall("getPropertySets", wanted[i]) ]

\* A returned run over an element two rules apply to and an element no rule
\* applies to.
C29_Witness ==
    /\ valPc = "returned"
    /\ Len(valLog) = 2
    /\ \E i \in DOMAIN valLog :
          valLog[i].fetched = "psets" /\ Len(valLog[i].applicable) > 1
    /\ \E i \in DOMAIN valLog :
          valLog[i].fetched = "props" /\ ~HasApplicableRule(valLog[i].mesh)

\* ------------------------------------------- claims on the fallback

\* The requests the fallback step of the call has made.
FallbackCalls ==
    SelectSeq(gep.calls, LAMBDA call : call.step \in {"fallback", "fullSet"})

\* A request of the fallback step for the i-th association was rejected.
FallbackFailedAt(i) ==
    \E k \in DOMAIN gep.failed :
        gep.failed[k] \in {"fallback", "fullSet"} /\ gep.failedAt[k] = i

\* The sets the fallback is to append: the associations that resolve to a
\* property set or a quantity set, in order, without those a request was
\* rejected for.
FallbackSets(assoc) ==
    LET kept == SelectSeq([ i \in DOMAIN assoc |-> i ],
                          LAMBDA i : /\ AssociatedItem(assoc[i]).type
                                          \in {"IFCPROPERTYSET", "IFCELEMENTQUANTITY"}
                                     /\ ~FallbackFailedAt(i))
    IN  [ k \in DOMAIN kept |-> Pset(<< AssociatedItem(assoc[kept[k]]).type >>, <<>>) ]

\* C30: in a getElementProperties call that returned a bundle, when the
\* property-set fetch returned no set and the base properties list
\* associations, every association was resolved once, in order, and the
\* bundle's sets are exactly the associations that resolved to a property set
\* or a quantity set, a rejected request dropping only its own association;
\* otherwise the fallback made no request and the bundle's sets are the
\* fetched ones.
C30_FallbackOnlyWithoutSets ==
    (gep.pc = "returned" /\ gep.outcome = "bundle")
    => LET fetched == IfcFile[gep.expressID].psets
           assoc == AssociationsOf(gep)
           resolved == SelectSeq(FallbackCalls, LAMBDA call : call.step = "fallback")
       IN  IF fetched = <<>> /\ assoc # <<>>
           THEN /\ [ i \in DOMAIN resolved |-> resolved[i].id ] = assoc
                /\ gep.bundle[1].propertySets = FallbackSets(assoc)
           ELSE /\ FallbackCalls = <<>>
                /\ gep.bundle[1].propertySets = fetched

\* A bundle for an element without property sets: the property set among
\* its associations could not be resolved, the quantity set after it was
\* appended.
C30_Witness ==
    /\ gep.pc = "returned"
    /\ gep.outcome = "bundle"
    /\ Len(AssociationsOf(gep)) = 4
    /\ FallbackFailedAt(2)
    /\ gep.bundle[1].propertySets = << Pset(<< "IFCELEMENTQUANTITY" >>, <<>>) >>

\* ------------------------------- claims on validation across a reload

\* C31: in the step in which a validateModel run returns, a model is live
\* and every entry of the list returned refers to an element of that model,
\* also when loadIFC calls were made while the run was suspended.
C31_ResultsOfLiveModel ==
    [][ (valPc # "returned" /\ valPc' = "returned")
        => \A j \in DOMAIN valResults' :
              /\ currentModel' # NoModel
              /\ << valResults'[j].modelID, valResults'[j].elementID >>
                     \in ValidationSet(models'[currentModel']) ]_vars

\* The run has gone through the meshes it collected, each once and in the
\* order collected.
ProcessedEachOnce ==
    /\ valProcessed = Len(valMeshes)
    /\ Len(valLog) = Len(valMeshes)
    /\ \A i \in DOMAIN valLog : valLog[i].mesh = valMeshes[i]

\* C34: when the parser answers every request, with the data or with a
\* rejection, a validateModel run that has been suspended on a request
\* returns its list, and a run that has returned has processed every mesh it
\* collected when it started exactly once, whatever loadIFC did to the
\* model while the run was suspended.
C34_RunReturnsHavingProcessedAll ==
    /\ (valPc \in {"awaitProps", "awaitPsets"})
           ~> (valPc = "returned" /\ valOutcome = "returned")
    /\ [](valPc = "returned" /\ valModel # NoModel => ProcessedEachOnce)

\* A run over two meshes has returned after the model it started on was
\* disposed of, one of its requests having been rejected.
C34_Witness ==
    /\ valPc = "returned"
    /\ valModel # NoModel
    /\ currentModel # valModel
    /\ Len(valMeshes) = 2
    /\ ProcessedEachOnce
    /\ \E i \in DOMAIN valLog : valLog[i].fetched = "psetsFailed"

\* --------------------------------------------- claims on the load order

\* C35: in every state an operation can run in, a model that is current has
\* been through centerModel, and a loadIFC call whose last notification is
\* 100% "Complete!" has produced a model that has been through centerModel:
\* nothing runs between currentModel being set and the end of the centring.
C35_LiveModelIsCentred ==
    /\ currentModel # NoModel => models[currentModel].centerCalls = 1
    /\ \A l \in DOMAIN loads :
          loads[l].notified = << Notify(100, "Complete!") >>
             => l \in DOMAIN models /\ models[l].centerCalls = 1

\* A click has highlighted an element of a current model with meshes, parsed
\* away from the origin and centred, whose load notified "Complete!".
C35_Witness ==
    /\ currentModel # NoModel
    /\ loads[currentModel].notified = << Notify(100, "Complete!") >>
    /\ models[currentModel].offset # <<>>
    /\ models[currentModel].offset # << 0 >>
    /\ currentSubset # <<>>
    /\ subsetCalls.op = "pickObject"

\* ------------------------------------------- claims on the properties panel

\* The expressID the selected mesh carries.
SelectedElement == models[selectedObject[1][1]].meshes[selectedObject[1][2]].expressID

\* C32: when no getElementProperties call is pending, the properties panel
\* shows the placeholder if the last selection event was a deselection, and
\* shows no properties other than those of the element selected last, in
\* whatever order the requests of successive selections were answered.
C32_PanelShowsLastSelection ==
    fetches = <<>> =>
        IF selectedObject = <<>>
        THEN propPanel = Placeholder
        ELSE propPanel.kind = "properties" => propPanel.expressID = SelectedElement

\* ------------------------------------------- claims on the loading overlay

\* A load started from the file input has not settled.
LoadInProgress == \E l \in uiLoads : ~Finished(l)

\* A validation started from the Validate button waits for its timer or for
\* validateModel.
ValidationInProgress ==
    \/ uiValidate.pc = "delay"
    \/ uiValidate.pc = "awaitResults" /\ valPc # "returned"

\* C33: in every state in which a load or a validation run started from the
\* page is in progress the loading overlay is visible, whatever hide timers
\* earlier operations have left pending.
C33_OverlayVisibleWhileBusy ==
    LoadInProgress \/ ValidationInProgress => ~overlayHidden
====
